---------------------------- MODULE Spec2Model ----------------------------
(***************************************************************************)
(* Pakpay: the double-entry ledger engine (LedgerService, knex), the       *)
(* wallet transfer handler (CompliantWalletService, pg pool) with its      *)
(* limit check, and the transaction monitoring pipeline                    *)
(* (TransactionMonitoringService) over one PostgreSQL store at READ        *)
(* COMMITTED.                                                              *)
(*                                                                         *)
(* Money is counted in whole units.  A row lock (SELECT ... FOR UPDATE, or *)
(* the lock an UPDATE takes) is held until the owning database transaction *)
(* commits or rolls back.  Rows written inside a database transaction      *)
(* become visible to other sessions at COMMIT.  Every await of a handler   *)
(* that touches shared state is one step of the model.                     *)
(***************************************************************************)
EXTENDS Integers, Sequences, FiniteSets, TLC

(***************************************************************************)
(* Bounds of the model.                                                    *)
(***************************************************************************)
NumCalls == 2
NumLaunched == 3
MaxStartBalance == 3
MaxLaunchAmount == 2
MaxAccounts == 3
MaxInitBalance == 1
MaxAmount == 1
MaxRef == 2
MaxLimit == 2
MaxHistory == 3
DaysPerMonth == 2
MonthsPerYear == 2
NumYears == 2
MaxKycLevel == 1
MaxSpends == 2
NumTriggers == 2
MaxAuditRecords == 2
MaxKeep == 1

Calls == 1..NumCalls
Slots == 1..(IF NumLaunched > NumCalls THEN NumLaunched ELSE NumCalls)
Users == {1, 2}
AccountIds == 1..MaxAccounts
Amounts == (0 - 1)..MaxAmount
Refs == 1..MaxRef
InitBalances == 0..MaxInitBalance
Statuses == {"active", "frozen", "closed"}
NoCall == 0
NoAccount == 0

VARIABLES
  uniqueLedgerRef,  \* schema: ledger_entries.transaction_ref carries UNIQUE
  accounts,         \* accounts table, by id
  transactions,     \* transactions table (committed rows)
  ledger,           \* ledger_entries table (committed rows, in commit order)
  lockHolder,       \* row lock on an accounts row: the call that holds it
  call,             \* the handler invocations, one per request
  initBalance,      \* the balances the run started from
  deposited,        \* sum of the amounts of committed deposits
  kycLimits,        \* kyc_limits row of the users' KYC level
  history,          \* ledger_entries of the monitored user, as the rules query them
  mon,              \* the monitorTransaction evaluation and its caller
  reports,          \* compliance tables: alerts, STR, CTR, blocks, logs, errors
  user_limits,      \* user_limits row of the sender (KYCLimitsService)
  today,            \* the calendar date the servers' clocks show
  limitsResult,     \* what the last limit check answered
  scheduled_transfers, \* the due occurrence's row, one per scheduler
  exec,             \* the executions the schedulers triggered
  audit_trail,      \* audit_trail table
  audit_trail_archive, \* audit_trail_archive table
  security_logs,    \* security_logs table
  auditCall,        \* the audit service call under way and what it returned
  dailyReport,      \* what generateDailyReport returned last
  money_requests,   \* the money_requests row of one request
  approve,          \* the approveRequest calls on that request, as they arrived
  redis,            \* the 2fa_token:<token> keys, by token in order of issue
  validate,         \* the validate2FAToken calls, as they arrived
  clients,          \* the connections of the pg pool: leased, in a transaction
  handler           \* the handlers that took a connection, as they arrived

gatewayVars == <<money_requests, approve, redis, validate, clients, handler>>

serviceVars == <<user_limits, today, limitsResult, scheduled_transfers, exec,
                 audit_trail, audit_trail_archive, security_logs, auditCall,
                 dailyReport, gatewayVars>>

complianceVars == <<kycLimits, history, mon, reports, serviceVars>>

vars == <<uniqueLedgerRef, accounts, transactions, ledger, lockHolder, call,
          initBalance, deposited, kycLimits, history, mon, reports,
          user_limits, today, limitsResult, scheduled_transfers, exec,
          audit_trail, audit_trail_archive, security_logs, auditCall,
          dailyReport, money_requests, approve, redis, validate, clients,
          handler>>

NoRow == [exists |-> FALSE, user |-> 0, balance |-> 0, status |-> "active",
          creator |-> 0]

IdleCall == [pc |-> "idle", op |-> "none", id |-> 0, stage |-> "none",
             fromUser |-> 0, toUser |-> 0, amount |-> 0, ref |-> 0,
             fromAcc |-> NoAccount, toAcc |-> NoAccount,
             fromBal |-> 0, fromStatus |-> "none",
             toBal |-> 0, toStatus |-> "none",
             error |-> "none", fromNew |-> 0, toNew |-> 0,
             limitsCheck |-> "none", monitoringResult |-> "none"]

RECURSIVE SumBalances(_, _)
SumBalances(acc, S) ==
  IF S = {} THEN 0
  ELSE LET a == CHOOSE x \in S : TRUE
       IN (IF acc[a].exists THEN acc[a].balance ELSE 0) + SumBalances(acc, S \ {a})

TotalBalance == SumBalances(accounts, AccountIds)

AccountsOf(u) == {a \in AccountIds : accounts[a].exists /\ accounts[a].user = u}
FreeIds == {a \in AccountIds : ~accounts[a].exists}
(* gen_random_uuid(): a fresh identifier; identifiers are opaque, the least *)
(* unused one stands for it.                                               *)
NewId == CHOOSE a \in FreeIds : \A b \in FreeIds : a <= b
LedgerRefs == {ledger[i].ref : i \in 1..Len(ledger)}
TransactionRefs == {t.ref : t \in transactions}

(***************************************************************************)
(* The three schema scripts: the knex migration and init-ledger.js declare *)
(* ledger_entries.transaction_ref UNIQUE, fresh-start.js does not.         *)
(***************************************************************************)
SchemaChoices == BOOLEAN

(***************************************************************************)
(* The compliance side.  kycLimits is the kyc_limits row the wallet reads; *)
(* history is what the monitoring rules find in ledger_entries for the     *)
(* monitored user: count entries, each a debit of the same amount and age; *)
(* mon is one monitorTransaction evaluation with the part of its caller    *)
(* that follows it; reports holds the tables the monitoring service and    *)
(* the reporting service write through the pool (autocommit).              *)
(***************************************************************************)
NoLimits == [per_transaction_limit |-> 0, daily_limit |-> 0, monthly_limit |-> 0]
NoHistory == [count |-> 0, amount |-> 0, age |-> "hour"]
NoVerdict == [returned |-> "none", blocked |-> FALSE, alerts |-> <<>>, error |-> FALSE]
IdleMonitor == [pc |-> "idle", amount |-> 0, type |-> "personal", pep |-> FALSE,
                receiverListed |-> FALSE, hour |-> "day",
                alerts |-> <<>>, threw |-> "none",
                result |-> NoVerdict, transfer |-> "none"]
NoReports == [monitoring_alerts |-> {}, strs |-> 0, ctrs |-> <<>>,
              blocked_transactions |-> 0, monitoring_logs |-> 0,
              monitoring_errors |-> 0]

(***************************************************************************)
(* The services around the ledger.  The clock counts calendar days; a      *)
(* month has DaysPerMonth days and a year MonthsPerYear months.            *)
(***************************************************************************)
LastDay == DaysPerMonth * MonthsPerYear * NumYears - 1
Dates == 0..LastDay
(* Date.prototype.getDate, getMonth, getFullYear.                          *)
getDate(t) == (t % DaysPerMonth) + 1
getMonth(t) == (t \div DaysPerMonth) % MonthsPerYear
getFullYear(t) == t \div (DaysPerMonth * MonthsPerYear)

KycLevels == 0..MaxKycLevel
KYC_LIMITS ==
  [level \in 0..3 |->
     IF level = 0 THEN [daily |-> 0, monthly |-> 0, perTransaction |-> 0]
     ELSE IF level = 1
          THEN [daily |-> 25000, monthly |-> 200000, perTransaction |-> 10000]
     ELSE IF level = 2
          THEN [daily |-> 100000, monthly |-> 1000000, perTransaction |-> 50000]
     ELSE [daily |-> 500000, monthly |-> 5000000, perTransaction |-> 200000]]

(* The user_limits row joined with users.kyc_level, as upgradeKYCLevel     *)
(* leaves it for a level.                                                  *)
UserLimitsRow(level, t) ==
  [kyc_level |-> level,
   daily_limit |-> KYC_LIMITS[level].daily,
   monthly_limit |-> KYC_LIMITS[level].monthly,
   per_transaction_limit |-> KYC_LIMITS[level].perTransaction,
   daily_spent |-> 0, monthly_spent |-> 0,
   daily_reset_at |-> t, monthly_reset_at |-> t]

NoLimitsResult == [by |-> "none", kyc_level |-> 0, amount |-> 0,
                   allowed |-> FALSE, reason |-> "none",
                   daily_spent |-> 0, monthly_spent |-> 0,
                   stored_daily |-> 0, stored_monthly |-> 0,
                   daily_reset_at |-> 0, monthly_reset_at |-> 0, at |-> 0]

KYCIdle ==
  /\ user_limits = UserLimitsRow(1, 0)
  /\ today = 0
  /\ limitsResult = NoLimitsResult

(* The two schedulers of the repository, each with its scheduled_transfers *)
(* table; the row is the one due occurrence of a one-time transfer.        *)
Schedulers == {"services", "routes"}
Triggers == 1..NumTriggers
DueStatus(s) == IF s = "services" THEN "active" ELSE "pending"
IdleExec == [pc |-> "idle", scheduler |-> "none", balance |-> 0, error |-> "none"]

ScheduledIdle ==
  /\ scheduled_transfers = [s \in Schedulers |-> [status |-> DueStatus(s),
                                                   amount |-> 1,
                                                   cancelled_at |-> FALSE]]
  /\ exec = [t \in Triggers |-> IdleExec]

(* A JavaScript object handed to the audit trail as oldValues, newValues   *)
(* or details: absent keys are Absent, credentials is a nested object.     *)
Absent == "undefined"
NullValues == [isNull |-> TRUE, amount |-> Absent, pin |-> Absent,
               credentials |-> [password |-> Absent], severity |-> Absent]
NoIdentity == [userId |-> 0, action |-> "none", entityType |-> "none",
               entityId |-> 0]
IdleAuditCall == [op |-> "none", pc |-> "idle", data |-> NoIdentity,
                  values |-> NullValues, returned |-> "none",
                  caller |-> "none", outcome |-> "none"]
IdleArchive == [pc |-> "idle", cutoffDate |-> 0, returned |-> "none"]

AuditIdle ==
  /\ audit_trail = {}
  /\ audit_trail_archive = {}
  /\ security_logs = {}
  /\ auditCall = [log |-> IdleAuditCall, job |-> IdleArchive,
                  written |-> {},
                  verified |-> [auditId |-> 0, valid |-> FALSE,
                                recomputed |-> FALSE, unmodified |-> FALSE]]

NoReport == [outcome |-> "none", totalDebits |-> 0, totalCredits |-> 0,
             totalEntries |-> 0, isBalanced |-> FALSE]

ReportIdle == dailyReport = NoReport

(* One money request, pending, from user 2 to user 1 (the approver).       *)
Approvers == 1..NumCalls
PendingRequest == [status |-> "pending", amount |-> 1, approved_at |-> FALSE,
                   declined_at |-> FALSE, cancelled_at |-> FALSE]
IdleApprove == [pc |-> "idle", amount |-> 0, balance |-> 0, error |-> "none"]

RequestsIdle ==
  /\ money_requests = PendingRequest
  /\ approve = <<>>

(* The 2FA tokens: a key is stored by generate2FAToken and gone after DEL  *)
(* or expiry; GET answers null for a key that is not stored.               *)
Tokens == 1..MaxRef
Validators == 1..NumLaunched
IdleValidate == [pc |-> "idle", token |-> 0, data |-> FALSE, valid |-> FALSE]

TwoFactorIdle ==
  /\ redis = <<>>
  /\ validate = <<>>

(* The pool's connections and the handlers that work on one.               *)
ClientIds == 1..NumCalls
Handlers == 1..NumLaunched

PoolIdle ==
  /\ clients = [leased |-> {}, inTransaction |-> {}]
  /\ handler = <<>>

GatewayIdle == RequestsIdle /\ TwoFactorIdle /\ PoolIdle

ServicesIdle == KYCIdle /\ ScheduledIdle /\ AuditIdle /\ ReportIdle /\ GatewayIdle

ComplianceIdle ==
  /\ kycLimits = NoLimits
  /\ history = NoHistory
  /\ mon = IdleMonitor
  /\ reports = NoReports

InitStore ==
  /\ uniqueLedgerRef \in SchemaChoices
  /\ \E b1 \in InitBalances, b2 \in InitBalances, s1 \in Statuses,
        s2 \in Statuses, e2 \in BOOLEAN :
       accounts = [a \in AccountIds |->
                    IF a = 1 THEN [exists |-> TRUE, user |-> 1, balance |-> b1,
                                   status |-> s1, creator |-> 0]
                    ELSE IF a = 2 /\ e2
                         THEN [exists |-> TRUE, user |-> 2, balance |-> b2,
                               status |-> s2, creator |-> 0]
                         ELSE NoRow]
  /\ transactions = {}
  /\ ledger = <<>>
  /\ lockHolder = [a \in AccountIds |-> NoCall]
  /\ call = [p \in Slots |-> IdleCall]
  /\ initBalance = [a \in AccountIds |-> accounts[a].balance]
  /\ deposited = 0

Init == ComplianceIdle /\ ServicesIdle /\ InitStore

(***************************************************************************)
(* A row lock is granted when no other transaction holds it.               *)
(***************************************************************************)
(* A SELECT without FOR UPDATE never waits.                                 *)
LockAvailable_NoWait(a, p) == TRUE

LockAvailable(a, p) == lockHolder[a] \in {NoCall, p}

ReleaseLocks(p) == [a \in AccountIds |-> IF lockHolder[a] = p THEN NoCall ELSE lockHolder[a]]

(* generateTRN: timestamp to the second plus six random base-36 digits.    *)
generateTRN == Refs

(* Requests arrive one per slot; the slots are filled in order.              *)
CanStart(p) == call[p].pc = "idle" /\ \A q \in Slots : q < p => call[q].pc # "idle"

(***************************************************************************)
(* LedgerService.recordTransfer: knex.transaction opened; the accounts are *)
(* then looked up outside the transaction.  The reference generated at     *)
(* line 56 is local to the call until its first INSERT: its value is drawn *)
(* there, in TransferWrite, and a call that throws before never shows it.  *)
(***************************************************************************)
RecordTransferStart(p, fromUserId, toUserId, amount) ==
  /\ CanStart(p)
  /\ call' = [call EXCEPT ![p] =
                [IdleCall EXCEPT !.pc = "goc_select", !.op = "transfer",
                                 !.id = p, !.stage = "from",
                                 !.fromUser = fromUserId, !.toUser = toUserId,
                                 !.amount = amount]]
  /\ UNCHANGED <<complianceVars, uniqueLedgerRef, accounts, transactions, ledger, lockHolder,
                 initBalance, deposited>>

StageUser(c) == IF c.stage = "from" THEN c.fromUser ELSE c.toUser

(* The row getOrCreateAccount returns: the one its SELECT found, or the    *)
(* one its INSERT ... RETURNING * made, with balance 0 and the default     *)
(* status.                                                                 *)
ReturnedRow(a) ==
  IF accounts[a].exists THEN accounts[a]
  ELSE [exists |-> TRUE, user |-> 0, balance |-> 0, status |-> "active",
        creator |-> 0]

ReadOps == {"getBalance", "getTransactionHistory"}

(* getBalance returns balance and status of that row; getTransactionHistory *)
(* goes on to query the entries of the account.                            *)
AfterAccountRead(c, a) ==
  IF c.op = "getBalance"
  THEN [c EXCEPT !.toAcc = a, !.stage = "none", !.pc = "done",
                 !.toBal = ReturnedRow(a).balance,
                 !.toStatus = ReturnedRow(a).status]
  ELSE [c EXCEPT !.toAcc = a, !.stage = "none", !.pc = "history_query"]

AfterAccount(c, a) ==
  IF c.stage = "from"
  THEN [c EXCEPT !.fromAcc = a, !.stage = "to", !.pc = "goc_select"]
  ELSE IF c.op = "transfer"
       THEN [c EXCEPT !.toAcc = a, !.stage = "none", !.pc = "lock_from"]
       ELSE IF c.op = "deposit"
            THEN [c EXCEPT !.toAcc = a, !.stage = "none", !.pc = "dep_lock"]
            ELSE AfterAccountRead(c, a)

(* getOrCreateAccount, the SELECT ... first(): outside any transaction.    *)
GetOrCreateSelect(p) ==
  /\ call[p].pc = "goc_select"
  /\ IF AccountsOf(StageUser(call[p])) = {}
     THEN call' = [call EXCEPT ![p].pc = "goc_insert"]
     ELSE \E a \in AccountsOf(StageUser(call[p])) :
            call' = [call EXCEPT ![p] = AfterAccount(call[p], a)]
  /\ UNCHANGED <<complianceVars, uniqueLedgerRef, accounts, transactions, ledger, lockHolder, initBalance, deposited>>

(* getOrCreateAccount, the INSERT: autocommitted on the global connection. *)
GetOrCreateInsert(p) ==
  /\ call[p].pc = "goc_insert"
  /\ FreeIds # {}
  /\ LET a == NewId IN
       /\ accounts' = [accounts EXCEPT ![a] =
                         [exists |-> TRUE, user |-> StageUser(call[p]),
                          balance |-> 0, status |-> "active",
                          creator |-> call[p].id]]
       /\ call' = [call EXCEPT ![p] = AfterAccount(call[p], a)]
  /\ UNCHANGED <<complianceVars, uniqueLedgerRef, transactions, ledger, lockHolder, initBalance, deposited>>

(* SELECT ... FOR UPDATE on the sender's row: taken first, always.         *)
LockFrom(p) ==
  /\ call[p].pc = "lock_from"
  /\ LockAvailable(call[p].fromAcc, p)
  /\ lockHolder' = [lockHolder EXCEPT ![call[p].fromAcc] = p]
  /\ call' = [call EXCEPT ![p].pc = "lock_to",
                          ![p].fromBal = accounts[call[p].fromAcc].balance,
                          ![p].fromStatus = accounts[call[p].fromAcc].status]
  /\ UNCHANGED <<complianceVars, uniqueLedgerRef, accounts, transactions, ledger, initBalance, deposited>>

(* SELECT ... FOR UPDATE on the receiver's row: taken second, always.      *)
LockTo(p) ==
  /\ call[p].pc = "lock_to"
  /\ LockAvailable(call[p].toAcc, p)
  /\ lockHolder' = [lockHolder EXCEPT ![call[p].toAcc] = p]
  /\ call' = [call EXCEPT ![p].pc = "write",
                          ![p].toBal = accounts[call[p].toAcc].balance,
                          ![p].toStatus = accounts[call[p].toAcc].status]
  /\ UNCHANGED <<complianceVars, uniqueLedgerRef, accounts, transactions, ledger, initBalance, deposited>>

(* The check of line 74: parseFloat(lockedFromAccount.balance) < amount.   *)
InsufficientBalance(balance, amount) == balance < amount

(* What the checks of lines 73-85 throw, "none" if nothing.                 *)
ValidationError(c) ==
  IF InsufficientBalance(c.fromBal, c.amount) THEN "Insufficient balance"
  ELSE IF c.fromStatus # "active" THEN "Source account is not active"
  ELSE IF c.toStatus # "active" THEN "Destination account is not active"
  ELSE "none"

(* What the three INSERTs of lines 92-139 throw: transactions.transaction_ref *)
(* is unique in every schema, ledger_entries.transaction_ref in two of     *)
(* three, and the credit entry repeats the debit entry's reference.        *)
InsertError(c) ==
  IF c.ref \in TransactionRefs THEN "duplicate key transactions"
  ELSE IF uniqueLedgerRef /\ c.ref \in LedgerRefs THEN "duplicate key ledger_entries"
  ELSE IF uniqueLedgerRef THEN "duplicate key ledger_entries"
  ELSE "none"

TransferError(c) ==
  IF ValidationError(c) # "none" THEN ValidationError(c) ELSE InsertError(c)

DebitEntry(c, balanceAfter) ==
  [ref |-> c.ref, account |-> c.fromAcc, entry_type |-> "debit",
   amount |-> c.amount, balance_after |-> balanceAfter, op |-> c.id]

CreditEntry(c, balanceAfter) ==
  [ref |-> c.ref, account |-> c.toAcc, entry_type |-> "credit",
   amount |-> c.amount, balance_after |-> balanceAfter, op |-> c.id]

(***************************************************************************)
(* recordTransfer from the balance check to the end of knex.transaction:   *)
(* a throw rolls everything of the transaction back; otherwise the         *)
(* transaction row, the two entries, the two balance updates (sender's     *)
(* first, receiver's second) and the status update commit together.        *)
(***************************************************************************)
TransferWrite(p) ==
  /\ call[p].pc = "write"
  /\ \E transactionRef \in generateTRN :
     LET c == IF ValidationError(call[p]) # "none" THEN call[p]
              ELSE [call[p] EXCEPT !.ref = transactionRef]
         fromNewBalance == c.fromBal - c.amount
         toNewBalance == c.toBal + c.amount
     IN IF TransferError(c) # "none"
        THEN /\ call' = [call EXCEPT ![p] = [c EXCEPT !.pc = "failed",
                                                      !.error = TransferError(c)]]
             /\ UNCHANGED <<accounts, transactions, ledger>>
        ELSE /\ call' = [call EXCEPT ![p] = [c EXCEPT !.pc = "done",
                                                      !.fromNew = fromNewBalance,
                                                      !.toNew = toNewBalance]]
             /\ transactions' = transactions \cup
                  {[ref |-> c.ref, type |-> "transfer", from |-> c.fromAcc,
                    to |-> c.toAcc, amount |-> c.amount, status |-> "completed",
                    op |-> c.id]}
             /\ ledger' = ledger \o <<DebitEntry(c, fromNewBalance),
                                      CreditEntry(c, toNewBalance)>>
             /\ accounts' = [[accounts EXCEPT ![c.fromAcc].balance = fromNewBalance]
                               EXCEPT ![c.toAcc].balance = toNewBalance]
  /\ lockHolder' = ReleaseLocks(p)
  /\ UNCHANGED <<complianceVars, uniqueLedgerRef, initBalance, deposited>>

(***************************************************************************)
(* LedgerService.deposit; its reference is drawn in DepositWrite.          *)
(***************************************************************************)
DepositStart(p, userId, amount) ==
  /\ CanStart(p)
  /\ call' = [call EXCEPT ![p] =
                [IdleCall EXCEPT !.pc = "goc_select", !.op = "deposit",
                                 !.id = p, !.stage = "to",
                                 !.toUser = userId, !.amount = amount]]
  /\ UNCHANGED <<complianceVars, uniqueLedgerRef, accounts, transactions, ledger, lockHolder,
                 initBalance, deposited>>

DepositLock(p) ==
  /\ call[p].pc = "dep_lock"
  /\ LockAvailable(call[p].toAcc, p)
  /\ lockHolder' = [lockHolder EXCEPT ![call[p].toAcc] = p]
  /\ call' = [call EXCEPT ![p].pc = "dep_write",
                          ![p].toBal = accounts[call[p].toAcc].balance,
                          ![p].toStatus = accounts[call[p].toAcc].status]
  /\ UNCHANGED <<complianceVars, uniqueLedgerRef, accounts, transactions, ledger, initBalance, deposited>>

DepositError(c) ==
  IF c.ref \in TransactionRefs THEN "duplicate key transactions"
  ELSE IF uniqueLedgerRef /\ c.ref \in LedgerRefs THEN "duplicate key ledger_entries"
  ELSE "none"

DepositWrite(p) ==
  /\ call[p].pc = "dep_write"
  /\ \E transactionRef \in generateTRN :
     LET c == [call[p] EXCEPT !.ref = transactionRef]
         newBalance == c.toBal + c.amount
     IN IF DepositError(c) # "none"
        THEN /\ call' = [call EXCEPT ![p] = [c EXCEPT !.pc = "failed",
                                                      !.error = DepositError(c)]]
             /\ UNCHANGED <<accounts, transactions, ledger, deposited>>
        ELSE /\ call' = [call EXCEPT ![p] = [c EXCEPT !.pc = "done",
                                                      !.toNew = newBalance]]
             /\ transactions' = transactions \cup
                  {[ref |-> c.ref, type |-> "deposit", from |-> NoAccount,
                    to |-> c.toAcc, amount |-> c.amount, status |-> "completed",
                    op |-> c.id]}
             /\ ledger' = Append(ledger, CreditEntry(c, newBalance))
             /\ accounts' = [accounts EXCEPT ![c.toAcc].balance = newBalance]
             /\ deposited' = deposited + c.amount
  /\ lockHolder' = ReleaseLocks(p)
  /\ UNCHANGED <<complianceVars, uniqueLedgerRef, initBalance>>

(***************************************************************************)
(* PostgreSQL's deadlock detector: a transaction whose lock wait closes a  *)
(* cycle gets "deadlock detected" on the waiting statement; the handler's  *)
(* transaction rolls back.                                                 *)
(***************************************************************************)
WaitsFor(p) ==
  IF call[p].pc = "lock_from" THEN call[p].fromAcc
  ELSE IF call[p].pc = "lock_to" THEN call[p].toAcc
  ELSE IF call[p].pc = "dep_lock" THEN call[p].toAcc
  ELSE IF call[p].pc = "w_update_sender" THEN call[p].fromAcc
  ELSE IF call[p].pc = "w_update_recipient" THEN call[p].toAcc
  ELSE NoAccount

BlockedBy(p, q) ==
  /\ p # q
  /\ WaitsFor(p) # NoAccount
  /\ lockHolder[WaitsFor(p)] = q

RECURSIVE ReachBlocked(_, _, _)
ReachBlocked(p, q, n) ==
  \/ BlockedBy(p, q)
  \/ n > 0 /\ \E r \in Slots : BlockedBy(p, r) /\ ReachBlocked(r, q, n - 1)

Deadlocked_Never(p) == FALSE

Deadlocked(p) == \E q \in Slots : BlockedBy(p, q) /\ ReachBlocked(q, p, Cardinality(Slots))

DeadlockAbort(p) ==
  /\ Deadlocked(p)
  /\ call' = [call EXCEPT ![p].pc = "failed", ![p].error = "deadlock detected"]
  /\ lockHolder' = ReleaseLocks(p)
  /\ UNCHANGED <<complianceVars, uniqueLedgerRef, accounts, transactions, ledger, initBalance, deposited>>

(***************************************************************************)
(* CompliantWalletService.transfer.  BEGIN on a pooled connection, then    *)
(* the 2FA gate: its verdict is the 2FA service's ("pass", "required"      *)
(* without a token, "invalid" token); both refusals ROLLBACK and return.   *)
(* The recipient is named by phone; NoUser stands for an unknown phone.    *)
(***************************************************************************)
NoUser == 0
TwoFAVerdicts == {"pass", "required", "invalid"}

WalletTransferStart(p, senderId, recipientId, amount) ==
  /\ CanStart(p)
  /\ \E v \in TwoFAVerdicts :
       call' = [call EXCEPT ![p] =
                  [IdleCall EXCEPT
                     !.pc = IF v = "pass" THEN "w_sender" ELSE "failed",
                     !.error = IF v = "pass" THEN "none"
                               ELSE IF v = "required" THEN "requiresTwoFA"
                               ELSE "Invalid or expired authentication token",
                     !.op = "wallet", !.id = p, !.fromUser = senderId,
                     !.toUser = recipientId, !.amount = amount]]
  /\ UNCHANGED <<complianceVars, uniqueLedgerRef, accounts, transactions, ledger, lockHolder,
                 initBalance, deposited>>

(***************************************************************************)
(* Steps 2 and 3: plain SELECT of the sender's row (no FOR UPDATE), the    *)
(* balance kept in senderBalance, and the balance check on it.             *)
(***************************************************************************)
WalletReadSender(p) ==
  /\ call[p].pc = "w_sender"
  /\ IF AccountsOf(call[p].fromUser) = {}
     THEN call' = [call EXCEPT ![p].pc = "failed",
                               ![p].error = "Sender account not found"]
     ELSE \E a \in AccountsOf(call[p].fromUser) :
            IF accounts[a].balance < call[p].amount
            THEN call' = [call EXCEPT ![p].pc = "failed", ![p].fromAcc = a,
                                      ![p].fromBal = accounts[a].balance,
                                      ![p].error = "Insufficient balance"]
            ELSE call' = [call EXCEPT ![p].pc = "w_checks", ![p].fromAcc = a,
                                      ![p].fromBal = accounts[a].balance,
                                      ![p].fromStatus = accounts[a].status]
  /\ UNCHANGED <<complianceVars, uniqueLedgerRef, accounts, transactions, ledger, lockHolder,
                 initBalance, deposited>>

(***************************************************************************)
(* Step 4: checkTransactionLimits, read through the pool (committed rows,  *)
(* no lock): the per-transaction limit, then today's debits of the user    *)
(* plus the amount against the daily limit, then this month's against the  *)
(* monthly limit.  Every entry of a run is of the same day and month.      *)
(***************************************************************************)
RECURSIVE SumDebits(_, _)
SumDebits(userId, i) ==
  IF i = 0 THEN 0
  ELSE (IF ledger[i].entry_type = "debit" /\ accounts[ledger[i].account].user = userId
        THEN ledger[i].amount ELSE 0) + SumDebits(userId, i - 1)

getDailyTransactionTotal(userId) == SumDebits(userId, Len(ledger))
getMonthlyTransactionTotal(userId) == SumDebits(userId, Len(ledger))

checkTransactionLimits(userId, amount) ==
  IF amount > kycLimits.per_transaction_limit THEN "per_transaction"
  ELSE IF getDailyTransactionTotal(userId) + amount > kycLimits.daily_limit THEN "daily"
  ELSE IF getMonthlyTransactionTotal(userId) + amount > kycLimits.monthly_limit THEN "monthly"
  ELSE "allowed"

WalletLimits(p) ==
  /\ call[p].pc = "w_checks"
  /\ LET limitsCheck == checkTransactionLimits(call[p].fromUser, call[p].amount)
     IN IF limitsCheck # "allowed"
        THEN call' = [call EXCEPT ![p].pc = "failed", ![p].limitsCheck = limitsCheck,
                                  ![p].error = "Transaction exceeds limit"]
        ELSE call' = [call EXCEPT ![p].pc = "w_monitor", ![p].limitsCheck = limitsCheck]
  /\ UNCHANGED <<complianceVars, uniqueLedgerRef, accounts, transactions, ledger,
                 lockHolder, initBalance, deposited>>

(***************************************************************************)
(* Steps 5 to 7: recipient lookup, reference, monitorTransaction.  The     *)
(* monitoring service answers not blocked, blocked, or throws; a blocked   *)
(* verdict is ROLLBACK and return, a throw goes to the catch.              *)
(***************************************************************************)
MonitorVerdicts == {"pass", "blocked", "threw"}

(* The verdict is not looked at.                                            *)
MonitoringError_IgnoreBlocked(v) ==
  IF v = "threw" THEN "monitoring error" ELSE "none"

MonitoringError(v) ==
  IF v = "blocked" THEN "Transaction blocked for security review"
  ELSE IF v = "threw" THEN "monitoring error"
  ELSE "none"

WalletMonitor(p) ==
  /\ call[p].pc = "w_monitor"
  /\ IF call[p].toUser = NoUser
     THEN call' = [call EXCEPT ![p].pc = "failed", ![p].error = "Recipient not found"]
     ELSE \E transactionRef \in Refs, v \in MonitorVerdicts :
            IF MonitoringError(v) # "none"
            THEN call' = [call EXCEPT ![p].pc = "failed", ![p].ref = transactionRef,
                                      ![p].monitoringResult = v,
                                      ![p].error = MonitoringError(v)]
            ELSE call' = [call EXCEPT ![p].pc = "w_recipient", ![p].ref = transactionRef,
                                      ![p].monitoringResult = v]
  /\ UNCHANGED <<complianceVars, uniqueLedgerRef, accounts, transactions, ledger,
                 lockHolder, initBalance, deposited>>

(* Step 8: plain SELECT of the recipient's row.                            *)
WalletReadRecipient(p) ==
  /\ call[p].pc = "w_recipient"
  /\ IF AccountsOf(call[p].toUser) = {}
     THEN call' = [call EXCEPT ![p].pc = "w_insert", ![p].toAcc = NoAccount]
     ELSE \E a \in AccountsOf(call[p].toUser) :
            call' = [call EXCEPT ![p].pc = "w_insert", ![p].toAcc = a,
                                 ![p].toBal = accounts[a].balance,
                                 ![p].toStatus = accounts[a].status]
  /\ UNCHANGED <<complianceVars, uniqueLedgerRef, accounts, transactions, ledger, lockHolder,
                 initBalance, deposited>>

(***************************************************************************)
(* Step 9: the two INSERTs into ledger_entries, balance_after taken from   *)
(* the balances read in steps 2 and 8.  A throw (duplicate reference, or   *)
(* rows[0] of an empty recipient result) goes to the catch: ROLLBACK.      *)
(***************************************************************************)
WalletInsertError(c) ==
  IF uniqueLedgerRef /\ c.ref \in LedgerRefs THEN "duplicate key ledger_entries"
  ELSE IF c.toAcc = NoAccount THEN "TypeError"
  ELSE IF uniqueLedgerRef THEN "duplicate key ledger_entries"
  ELSE "none"

WalletInsertEntries(p) ==
  /\ call[p].pc = "w_insert"
  /\ IF WalletInsertError(call[p]) # "none"
     THEN call' = [call EXCEPT ![p].pc = "failed",
                               ![p].error = WalletInsertError(call[p])]
     ELSE call' = [call EXCEPT ![p].pc = "w_update_sender",
                               ![p].fromNew = call[p].fromBal - call[p].amount,
                               ![p].toNew = call[p].toBal + call[p].amount]
  /\ UNCHANGED <<complianceVars, uniqueLedgerRef, accounts, transactions, ledger, lockHolder,
                 initBalance, deposited>>

(* Step 10a: UPDATE accounts SET balance = balance - $1: takes the row lock.*)
WalletUpdateSender(p) ==
  /\ call[p].pc = "w_update_sender"
  /\ LockAvailable(call[p].fromAcc, p)
  /\ lockHolder' = [lockHolder EXCEPT ![call[p].fromAcc] = p]
  /\ call' = [call EXCEPT ![p].pc = "w_update_recipient"]
  /\ UNCHANGED <<complianceVars, uniqueLedgerRef, accounts, transactions, ledger, initBalance, deposited>>

(* Step 10b: UPDATE accounts SET balance = balance + $1: takes the row lock.*)
WalletUpdateRecipient(p) ==
  /\ call[p].pc = "w_update_recipient"
  /\ LockAvailable(call[p].toAcc, p)
  /\ lockHolder' = [lockHolder EXCEPT ![call[p].toAcc] = p]
  /\ call' = [call EXCEPT ![p].pc = "w_commit"]
  /\ UNCHANGED <<complianceVars, uniqueLedgerRef, accounts, transactions, ledger, initBalance, deposited>>

(* The two relative updates, applied to the rows as they are under lock.   *)
ApplyWalletUpdates(acc, c) ==
  LET debited == [acc EXCEPT ![c.fromAcc].balance = @ - c.amount]
  IN [debited EXCEPT ![c.toAcc].balance = @ + c.amount]

(* Step 11: COMMIT: entries and balances become visible, locks released.   *)
WalletCommit(p) ==
  /\ call[p].pc = "w_commit"
  /\ accounts' = ApplyWalletUpdates(accounts, call[p])
  /\ ledger' = ledger \o <<DebitEntry(call[p], call[p].fromNew),
                           CreditEntry(call[p], call[p].toNew)>>
  /\ lockHolder' = ReleaseLocks(p)
  /\ call' = [call EXCEPT ![p].pc = "w_post"]
  /\ UNCHANGED <<complianceVars, uniqueLedgerRef, transactions, initBalance, deposited>>

(***************************************************************************)
(* Step 12, after COMMIT and still inside the try: audit log (never        *)
(* throws), the two notifications (sendNotification rethrows), then the    *)
(* CTR for amounts at or above 2,000,000 through the reporting service.    *)
(* A throw here reaches the catch: ROLLBACK of nothing, and the error is   *)
(* thrown to the caller.                                                   *)
(***************************************************************************)
wallet_ctr_threshold == 2000000
PostCommitOutcomes == {"ok", "notification", "ctr"}

WalletGenerateCTR(rep, amount, outcome) ==
  IF outcome = "ok" /\ amount >= wallet_ctr_threshold
  THEN [rep EXCEPT !.ctrs = Append(@, "wallet")]
  ELSE rep

PostCommitError(amount, outcome) ==
  IF outcome = "notification" THEN "notification error"
  ELSE IF outcome = "ctr" /\ amount >= wallet_ctr_threshold THEN "CTR error"
  ELSE "none"

WalletPostCommit(p) ==
  /\ call[p].pc = "w_post"
  /\ \E outcome \in PostCommitOutcomes :
       /\ call' = [call EXCEPT
                     ![p].pc = IF PostCommitError(call[p].amount, outcome) = "none"
                               THEN "done" ELSE "failed",
                     ![p].error = PostCommitError(call[p].amount, outcome)]
       /\ reports' = WalletGenerateCTR(reports, call[p].amount, outcome)
  /\ UNCHANGED <<kycLimits, history, mon, serviceVars, uniqueLedgerRef, accounts,
                 transactions, ledger, lockHolder, initBalance, deposited>>

(***************************************************************************)
(* The ledger engine: recordTransfer and deposit requests, NumCalls of     *)
(* them, in any interleaving.                                              *)
(***************************************************************************)
Next ==
  \E p \in Calls :
    \/ \E f \in Users, t \in Users, x \in Amounts : RecordTransferStart(p, f, t, x)
    \/ \E u \in Users, x \in Amounts : DepositStart(p, u, x)
    \/ GetOrCreateSelect(p)
    \/ GetOrCreateInsert(p)
    \/ LockFrom(p)
    \/ LockTo(p)
    \/ TransferWrite(p)
    \/ DepositLock(p)
    \/ DepositWrite(p)
    \/ DeadlockAbort(p)

Spec == Init /\ [][Next]_vars

(***************************************************************************)
(* The wallet handler: NumCalls transfer requests with positive amounts,   *)
(* in any interleaving.                                                    *)
(***************************************************************************)
PositiveAmounts == 1..MaxAmount
(* kyc_limits rows: the monthly limit is at least the daily limit.          *)
LimitRows == [per_transaction_limit : 0..MaxAmount, daily_limit : 0..MaxLimit,
              monthly_limit : {MaxLimit}]

InitWallet ==
  /\ InitStore
  /\ ServicesIdle
  /\ kycLimits \in LimitRows
  /\ history = NoHistory
  /\ mon = IdleMonitor
  /\ reports = NoReports

NextWallet ==
  \E p \in Calls :
    \/ \E f \in Users, t \in Users \cup {NoUser}, x \in PositiveAmounts :
         WalletTransferStart(p, f, t, x)
    \/ WalletReadSender(p)
    \/ WalletLimits(p)
    \/ WalletMonitor(p)
    \/ WalletReadRecipient(p)
    \/ WalletInsertEntries(p)
    \/ WalletUpdateSender(p)
    \/ WalletUpdateRecipient(p)
    \/ WalletCommit(p)
    \/ WalletPostCommit(p)
    \/ DeadlockAbort(p)

SpecWallet == InitWallet /\ [][NextWallet]_vars

(***************************************************************************)
(* The concurrent-transfer test: NumLaunched recordTransfer calls from     *)
(* user 1 to user 2, all for the same positive amount, against a starting  *)
(* balance of user 1 between 0 and MaxStartBalance.                        *)
(***************************************************************************)
LaunchAmounts == 1..MaxLaunchAmount
Launched == {p \in Slots : call[p].pc # "idle"}

InitConcurrent ==
  /\ ComplianceIdle
  /\ ServicesIdle
  /\ uniqueLedgerRef \in SchemaChoices
  /\ \E b1 \in 0..MaxStartBalance, e2 \in BOOLEAN :
       accounts = [a \in AccountIds |->
                    IF a = 1
                    THEN [exists |-> TRUE, user |-> 1, balance |-> b1,
                          status |-> "active", creator |-> 0]
                    ELSE IF a = 2 /\ e2
                         THEN [exists |-> TRUE, user |-> 2, balance |-> 0,
                               status |-> "active", creator |-> 0]
                         ELSE NoRow]
  /\ transactions = {}
  /\ ledger = <<>>
  /\ lockHolder = [a \in AccountIds |-> NoCall]
  /\ call = [p \in Slots |-> IdleCall]
  /\ initBalance = [a \in AccountIds |-> accounts[a].balance]
  /\ deposited = 0

NextConcurrent ==
  \E p \in 1..NumLaunched :
    \/ \E x \in LaunchAmounts :
         /\ \A q \in Launched : call[q].amount = x
         /\ RecordTransferStart(p, 1, 2, x)
    \/ GetOrCreateSelect(p)
    \/ GetOrCreateInsert(p)
    \/ LockFrom(p)
    \/ LockTo(p)
    \/ TransferWrite(p)

SpecConcurrent == InitConcurrent /\ [][NextConcurrent]_vars

(***************************************************************************)
(* Concurrent wallet transfers of one user: NumCalls transfers from user 1 *)
(* to user 2, user 1 holding MaxStartBalance, enough for all of them,      *)
(* under each kyc_limits row.                                              *)
(***************************************************************************)
FundedStore ==
  /\ accounts = [a \in AccountIds |->
                  IF a = 1
                  THEN [exists |-> TRUE, user |-> 1, balance |-> MaxStartBalance,
                        status |-> "active", creator |-> 0]
                  ELSE IF a = 2
                       THEN [exists |-> TRUE, user |-> 2, balance |-> 0,
                             status |-> "active", creator |-> 0]
                       ELSE NoRow]
  /\ transactions = {}
  /\ ledger = <<>>
  /\ lockHolder = [a \in AccountIds |-> NoCall]
  /\ call = [p \in Slots |-> IdleCall]
  /\ initBalance = [a \in AccountIds |-> accounts[a].balance]
  /\ deposited = 0

InitLimits ==
  /\ uniqueLedgerRef \in SchemaChoices
  /\ FundedStore
  /\ ServicesIdle
  /\ kycLimits \in LimitRows
  /\ history = NoHistory
  /\ mon = IdleMonitor
  /\ reports = NoReports

NextLimits ==
  \E p \in Calls :
    \/ \E x \in PositiveAmounts : WalletTransferStart(p, 1, 2, x)
    \/ WalletReadSender(p)
    \/ WalletLimits(p)
    \/ WalletMonitor(p)
    \/ WalletReadRecipient(p)
    \/ WalletInsertEntries(p)
    \/ WalletUpdateSender(p)
    \/ WalletUpdateRecipient(p)
    \/ WalletCommit(p)
    \/ WalletPostCommit(p)

SpecLimits == InitLimits /\ [][NextLimits]_vars

(***************************************************************************)
(* TransactionMonitoringService.  loadMonitoringRules, then the eight rule *)
(* evaluators in the order monitorTransaction calls them.  An evaluator    *)
(* yields the alerts it pushes (none, or one; the pattern rule up to       *)
(* three).  The rules read ledger_entries of the monitored user: history   *)
(* is those rows, count of them, each of history.amount, all of one age:   *)
(* "hour" within the last hour, "day" within the last 24 hours, "week"     *)
(* within the last 7 days, "dormant" 90 days old or more.                  *)
(***************************************************************************)
rules ==
  [largeTransaction |-> [personal |-> 500000, business |-> 2000000,
                         ctr_threshold |-> 2000000],
   velocity |-> [hourly |-> [count |-> 10, amount |-> 200000],
                 daily |-> [count |-> 50, amount |-> 1000000]],
   structuring |-> [threshold |-> 490000, minTransactions |-> 3],
   dormancy |-> [suspiciousAmount |-> 100000]]

MonitorAmounts == {5000, 490000, 495000, 500000, 2500000}
Ages == {"hour", "day", "week", "dormant"}
Histories == {NoHistory} \cup [count : 1..MaxHistory, amount : MonitorAmounts, age : Ages]
ProfileTypes == {"personal", "business"}
Hours == {"night", "day"}

Alert(type, severity) == [type |-> type, severity |-> severity]

(* created_at >= now - window                                              *)
Within(window) ==
  IF window = "hour" THEN history.age = "hour"
  ELSE IF window = "day" THEN history.age \in {"hour", "day"}
  ELSE history.age \in {"hour", "day", "week"}

EntriesWithin(window) == IF Within(window) THEN history.count ELSE 0

checkTransactionAmount(m) ==
  IF m.amount >= rules.largeTransaction.ctr_threshold
  THEN <<Alert("CTR_REQUIRED", "HIGH")>>
  ELSE IF m.amount >= (IF m.type = "business" THEN rules.largeTransaction.business
                       ELSE rules.largeTransaction.personal)
       THEN <<Alert("LARGE_TRANSACTION", "MEDIUM")>>
       ELSE <<>>

checkVelocity(m) ==
  IF \/ EntriesWithin("hour") > rules.velocity.hourly.count
     \/ EntriesWithin("hour") * history.amount > rules.velocity.hourly.amount
  THEN <<Alert("VELOCITY_HOURLY", "HIGH")>>
  ELSE IF \/ EntriesWithin("day") > rules.velocity.daily.count
          \/ EntriesWithin("day") * history.amount > rules.velocity.daily.amount
       THEN <<Alert("VELOCITY_DAILY", "MEDIUM")>>
       ELSE <<>>

(* le.amount BETWEEN threshold AND personal, created within the window.     *)
similarTxns ==
  IF /\ history.amount >= rules.structuring.threshold
     /\ history.amount <= rules.largeTransaction.personal
  THEN EntriesWithin("day") ELSE 0

InStructuringRange(amount) ==
  /\ amount >= rules.structuring.threshold
  /\ amount < rules.largeTransaction.personal

(* More than minTransactions similar entries are asked for.                 *)
detectStructuring_Strict(m) ==
  IF InStructuringRange(m.amount) /\ similarTxns > rules.structuring.minTransactions
  THEN <<Alert("STRUCTURING", "CRITICAL")>>
  ELSE <<>>

detectStructuring(m) ==
  IF InStructuringRange(m.amount) /\ similarTxns >= rules.structuring.minTransactions
  THEN <<Alert("STRUCTURING", "CRITICAL")>>
  ELSE <<>>

(* The entries of history are debits: no credit entry of today.             *)
deposits == 0
withdrawals == EntriesWithin("day")
IsRound(amount) == amount % 10000 = 0 /\ amount >= 50000
roundAmountTxns == IF IsRound(history.amount) THEN EntriesWithin("week") ELSE 0

detectSuspiciousPatterns(m) ==
  (IF deposits > 2 /\ withdrawals > 2
   THEN <<Alert("RAPID_MOVEMENT", "HIGH")>> ELSE <<>>)
  \o (IF IsRound(m.amount) /\ roundAmountTxns >= 3
      THEN <<Alert("ROUND_AMOUNTS", "MEDIUM")>> ELSE <<>>)
  \o (IF m.hour = "night" THEN <<Alert("UNUSUAL_TIME", "LOW")>> ELSE <<>>)

checkDormantAccount(m) ==
  IF /\ history.count > 0
     /\ history.age = "dormant"
     /\ m.amount >= rules.dormancy.suspiciousAmount
  THEN <<Alert("DORMANT_REACTIVATION", "HIGH")>>
  ELSE <<>>

(* The hit is rated HIGH.                                                   *)
checkSanctionsRealTime_High(m) ==
  IF m.receiverListed THEN <<Alert("SANCTIONS_HIT", "HIGH")>> ELSE <<>>

checkSanctionsRealTime(m) ==
  IF m.receiverListed THEN <<Alert("SANCTIONS_HIT", "CRITICAL")>> ELSE <<>>

(* transfer sets no metadata.country.                                       *)
checkGeographicRisk(m) == <<>>

checkPEPTransaction(m) ==
  IF m.pep /\ m.amount >= 100000
  THEN <<Alert("PEP_TRANSACTION", "MEDIUM")>>
  ELSE <<>>

HasSeverity(alerts, severity) ==
  \E i \in 1..Len(alerts) : alerts[i].severity = severity

(* Any CRITICAL or HIGH alert blocks.                                       *)
shouldBlockTransaction_AnySevere(alerts) ==
  \E i \in 1..Len(alerts) : alerts[i].severity \in {"CRITICAL", "HIGH"}

shouldBlockTransaction(alerts) ==
  \E i \in 1..Len(alerts) :
    /\ alerts[i].severity = "CRITICAL"
    /\ alerts[i].type \in {"SANCTIONS_HIT", "STRUCTURING", "DECEASED"}

(***************************************************************************)
(* monitorTransaction, one step per awaited evaluator.  Every query goes   *)
(* through the pool and may reject when the store is unavailable; the      *)
(* throw leaves the try for the catch at line 406.  mon.threw keeps the    *)
(* step that threw.                                                        *)
(***************************************************************************)
Throw(step) == mon' = [mon EXCEPT !.pc = "catch", !.threw = step]
Push(next, pushed) == mon' = [mon EXCEPT !.pc = next, !.alerts = @ \o pushed]
StoreLeft == UNCHANGED <<uniqueLedgerRef, accounts, transactions, ledger, lockHolder,
                         call, initBalance, deposited, kycLimits, history,
                         serviceVars>>

(* The transaction handed over by transfer, and getCustomerRiskProfile.    *)
MonitorTransactionStart(amount, type, pep, receiverListed, hour) ==
  /\ mon.pc = "idle"
  /\ \E ok \in BOOLEAN :
       mon' = [IdleMonitor EXCEPT
                 !.pc = IF ok THEN "amount" ELSE "catch",
                 !.threw = IF ok THEN "none" ELSE "getCustomerRiskProfile",
                 !.amount = amount, !.type = type, !.pep = pep,
                 !.receiverListed = receiverListed, !.hour = hour]
  /\ UNCHANGED reports
  /\ StoreLeft

(* 1. checkTransactionAmount; at the CTR threshold it first inserts a CTR. *)
CheckTransactionAmount ==
  /\ mon.pc = "amount"
  /\ IF mon.amount >= rules.largeTransaction.ctr_threshold
     THEN \E ok \in BOOLEAN :
            IF ok
            THEN /\ reports' = [reports EXCEPT !.ctrs = Append(@, "monitoring")]
                 /\ Push("velocity", checkTransactionAmount(mon))
            ELSE /\ Throw("generateCTR")
                 /\ UNCHANGED reports
     ELSE /\ Push("velocity", checkTransactionAmount(mon))
          /\ UNCHANGED reports
  /\ StoreLeft

(* 2. checkVelocity.                                                        *)
CheckVelocity ==
  /\ mon.pc = "velocity"
  /\ \E ok \in BOOLEAN :
       IF ok THEN Push("structuring", checkVelocity(mon)) ELSE Throw("checkVelocity")
  /\ UNCHANGED reports
  /\ StoreLeft

(* 3. detectStructuring; it queries only for an amount in the range.       *)
DetectStructuring ==
  /\ mon.pc = "structuring"
  /\ \E ok \in BOOLEAN :
       IF ok \/ ~InStructuringRange(mon.amount)
       THEN Push("patterns", detectStructuring(mon))
       ELSE Throw("detectStructuring")
  /\ UNCHANGED reports
  /\ StoreLeft

(* 4. detectSuspiciousPatterns.                                             *)
DetectSuspiciousPatterns ==
  /\ mon.pc = "patterns"
  /\ \E ok \in BOOLEAN :
       IF ok THEN Push("dormant", detectSuspiciousPatterns(mon))
       ELSE Throw("detectSuspiciousPatterns")
  /\ UNCHANGED reports
  /\ StoreLeft

(* 5. checkDormantAccount.                                                  *)
CheckDormantAccount ==
  /\ mon.pc = "dormant"
  /\ \E ok \in BOOLEAN :
       IF ok THEN Push("sanctions", checkDormantAccount(mon))
       ELSE Throw("checkDormantAccount")
  /\ UNCHANGED reports
  /\ StoreLeft

(* 6. checkSanctionsRealTime: users.name is NOT NULL, so it always queries. *)
CheckSanctionsRealTime ==
  /\ mon.pc = "sanctions"
  /\ \E ok \in BOOLEAN :
       IF ok THEN Push("geo", checkSanctionsRealTime(mon))
       ELSE Throw("checkSanctionsRealTime")
  /\ UNCHANGED reports
  /\ StoreLeft

(* 7. checkGeographicRisk: no query.                                        *)
CheckGeographicRisk ==
  /\ mon.pc = "geo"
  /\ Push("pep", checkGeographicRisk(mon))
  /\ UNCHANGED reports
  /\ StoreLeft

(* 8. checkPEPTransaction.                                                  *)
CheckPEPTransaction ==
  /\ mon.pc = "pep"
  /\ \E ok \in BOOLEAN :
       IF ok THEN Push("process", checkPEPTransaction(mon))
       ELSE Throw("checkPEPTransaction")
  /\ UNCHANGED reports
  /\ StoreLeft

(***************************************************************************)
(* processAlerts, when any alert was pushed: generateSTR for a CRITICAL    *)
(* alert (INSERT, then the compliance officer's notification),             *)
(* notifyComplianceTeam for a HIGH alert, and only then saveAlert for each *)
(* alert.  Outcome "str" is the STR insert rejecting, "notify" a           *)
(* notification rejecting, "save" the first saveAlert rejecting.           *)
(***************************************************************************)
ProcessOutcomes(alerts) ==
  {"ok", "save"}
    \cup (IF HasSeverity(alerts, "CRITICAL") THEN {"str", "notify"} ELSE {})
    \cup (IF HasSeverity(alerts, "HIGH") THEN {"notify"} ELSE {})

AlertTypes(alerts) == {alerts[i].type : i \in 1..Len(alerts)}

processAlerts(rep, alerts, outcome) ==
  [rep EXCEPT
     !.strs = IF HasSeverity(alerts, "CRITICAL") /\ outcome # "str" THEN @ + 1 ELSE @,
     !.monitoring_alerts = IF outcome = "ok" THEN @ \cup AlertTypes(alerts) ELSE @]

ProcessAlerts ==
  /\ mon.pc = "process"
  /\ IF mon.alerts = <<>>
     THEN /\ mon' = [mon EXCEPT !.pc = "save"]
          /\ UNCHANGED reports
     ELSE \E outcome \in ProcessOutcomes(mon.alerts) :
            /\ reports' = processAlerts(reports, mon.alerts, outcome)
            /\ IF outcome # "ok" THEN Throw("processAlerts")
               ELSE mon' = [mon EXCEPT !.pc = IF shouldBlockTransaction(mon.alerts)
                                               THEN "block" ELSE "save"]
  /\ StoreLeft

Verdict(blocked, alerts, error) ==
  [returned |-> "verdict", blocked |-> blocked, alerts |-> alerts, error |-> error]

(* blockTransaction: INSERT into blocked_transactions, notify the user.    *)
BlockOutcomes == {"ok", "insert", "notify"}

BlockTransaction ==
  /\ mon.pc = "block"
  /\ \E outcome \in BlockOutcomes :
       /\ reports' = [reports EXCEPT
                        !.blocked_transactions = IF outcome # "insert" THEN @ + 1 ELSE @]
       /\ IF outcome # "ok" THEN Throw("blockTransaction")
          ELSE mon' = [mon EXCEPT !.pc = "returned",
                                  !.result = Verdict(TRUE, mon.alerts, FALSE)]
  /\ StoreLeft

(* saveMonitoringResult, then return { blocked: false, alerts }.           *)
SaveMonitoringResult ==
  /\ mon.pc = "save"
  /\ \E ok \in BOOLEAN :
       IF ok
       THEN /\ reports' = [reports EXCEPT !.monitoring_logs = @ + 1]
            /\ mon' = [mon EXCEPT !.pc = "returned",
                                  !.result = Verdict(FALSE, mon.alerts, FALSE)]
       ELSE /\ Throw("saveMonitoringResult")
            /\ UNCHANGED reports
  /\ StoreLeft

(***************************************************************************)
(* The catch: logMonitoringError is awaited outside any try; when its      *)
(* INSERT rejects, monitorTransaction rejects to its caller.               *)
(***************************************************************************)
LogMonitoringError ==
  /\ mon.pc = "catch"
  /\ \E ok \in BOOLEAN :
       IF ok
       THEN /\ reports' = [reports EXCEPT !.monitoring_errors = @ + 1]
            /\ mon' = [mon EXCEPT !.pc = "returned",
                                  !.result = Verdict(FALSE, <<>>, TRUE)]
       ELSE /\ mon' = [mon EXCEPT !.pc = "returned", !.result.returned = "thrown"]
            /\ UNCHANGED reports
  /\ StoreLeft

(***************************************************************************)
(* The caller after monitorTransaction: a throw fails the transfer, a      *)
(* blocked verdict refuses it; otherwise steps 8 to 11 commit the entries  *)
(* ("error" stands for a throw before COMMIT) and step 12 follows.         *)
(***************************************************************************)
SettleOutcomes == {"ok", "error"}

TransferOutcome(m, settle, outcome) ==
  IF m.result.returned = "thrown" THEN "failed"
  ELSE IF m.result.blocked THEN "refused"
  ELSE IF settle = "error" THEN "failed"
  ELSE IF PostCommitError(m.amount, outcome) # "none" THEN "committed, then failed"
  ELSE "completed"

TransferAfterMonitoring ==
  /\ mon.pc = "returned"
  /\ \E settle \in SettleOutcomes, outcome \in PostCommitOutcomes :
       /\ mon' = [mon EXCEPT !.pc = "finished",
                             !.transfer = TransferOutcome(mon, settle, outcome)]
       /\ reports' = IF TransferOutcome(mon, settle, outcome) = "completed"
                     THEN WalletGenerateCTR(reports, mon.amount, outcome)
                     ELSE reports
  /\ StoreLeft

InitMonitor ==
  /\ uniqueLedgerRef = FALSE
  /\ FundedStore
  /\ ServicesIdle
  /\ kycLimits = NoLimits
  /\ history \in Histories
  /\ mon = IdleMonitor
  /\ reports = NoReports

NextMonitor ==
  \/ \E amount \in MonitorAmounts, type \in ProfileTypes, pep \in BOOLEAN,
        receiverListed \in BOOLEAN, hour \in Hours :
       MonitorTransactionStart(amount, type, pep, receiverListed, hour)
  \/ CheckTransactionAmount
  \/ CheckVelocity
  \/ DetectStructuring
  \/ DetectSuspiciousPatterns
  \/ CheckDormantAccount
  \/ CheckSanctionsRealTime
  \/ CheckGeographicRisk
  \/ CheckPEPTransaction
  \/ ProcessAlerts
  \/ BlockTransaction
  \/ SaveMonitoringResult
  \/ LogMonitoringError
  \/ TransferAfterMonitoring

SpecMonitor == InitMonitor /\ [][NextMonitor]_vars

(***************************************************************************)
(* KYCLimitsService over the sender's user_limits row, and the limit check *)
(* of the domestic transfer route.  The row exists: it is created by       *)
(* initialize_user_limits on the first check.                              *)
(***************************************************************************)
CheckAmounts == {5000, 30000}
SpendAmounts == {20000}

DailyResetDue(row, now) == getDate(now) # getDate(row.daily_reset_at)
MonthlyResetDue(row, now) ==
  \/ getMonth(now) # getMonth(row.monthly_reset_at)
  \/ getFullYear(now) # getFullYear(row.monthly_reset_at)

(* The two UPDATEs of the resets and the in-memory copy after them.        *)
ResetLimits(row, now) ==
  [row EXCEPT
     !.daily_spent = IF DailyResetDue(row, now) THEN 0 ELSE @,
     !.daily_reset_at = IF DailyResetDue(row, now) THEN now ELSE @,
     !.monthly_spent = IF MonthlyResetDue(row, now) THEN 0 ELSE @,
     !.monthly_reset_at = IF MonthlyResetDue(row, now) THEN now ELSE @]

(* The checks on the row after the resets: the reason of the denial, or    *)
(* "allowed".                                                              *)
LimitsReason(userLimits, amount) ==
  IF userLimits.kyc_level = 0 THEN "KYC verification required"
  ELSE IF amount > userLimits.per_transaction_limit THEN "per-transaction limit"
  ELSE IF userLimits.daily_spent + amount > userLimits.daily_limit
       THEN "daily limit"
  ELSE IF userLimits.monthly_spent + amount > userLimits.monthly_limit
       THEN "monthly limit"
  ELSE "allowed"

KYCLeft == UNCHANGED <<uniqueLedgerRef, accounts, transactions, ledger, lockHolder,
                       call, initBalance, deposited, kycLimits, history, mon,
                       reports, scheduled_transfers, exec, audit_trail,
                       audit_trail_archive, security_logs, auditCall, dailyReport,
                       gatewayVars>>

KYCCheckTransactionLimits(amount) ==
  LET userLimits == ResetLimits(user_limits, today)
  IN /\ user_limits' = userLimits
     /\ limitsResult' =
          [by |-> "KYCLimitsService", kyc_level |-> userLimits.kyc_level,
           amount |-> amount,
           allowed |-> LimitsReason(userLimits, amount) = "allowed",
           reason |-> LimitsReason(userLimits, amount),
           daily_spent |-> userLimits.daily_spent,
           monthly_spent |-> userLimits.monthly_spent,
           stored_daily |-> user_limits.daily_spent,
           stored_monthly |-> user_limits.monthly_spent,
           daily_reset_at |-> user_limits.daily_reset_at,
           monthly_reset_at |-> user_limits.monthly_reset_at,
           at |-> today]
     /\ UNCHANGED today
     /\ KYCLeft

(* updateSpentAmounts: one relative UPDATE of both counters.               *)
UpdateSpentAmounts(amount) ==
  /\ user_limits.daily_spent + amount <= MaxSpends * amount
  /\ user_limits.monthly_spent + amount <= MaxSpends * amount
  /\ user_limits' = [user_limits EXCEPT !.daily_spent = @ + amount,
                                        !.monthly_spent = @ + amount]
  /\ UNCHANGED <<today, limitsResult>>
  /\ KYCLeft

UpgradeKYCLevel(newLevel) ==
  /\ newLevel # user_limits.kyc_level
  /\ user_limits' =
       [user_limits EXCEPT
          !.kyc_level = newLevel,
          !.daily_limit = KYC_LIMITS[newLevel].daily,
          !.monthly_limit = KYC_LIMITS[newLevel].monthly,
          !.per_transaction_limit = KYC_LIMITS[newLevel].perTransaction]
  /\ UNCHANGED <<today, limitsResult>>
  /\ KYCLeft

(* POST /domestic: req.user.kyc_level || 1, the route's own table, and a   *)
(* daily total that is the literal 0.                                      *)
domesticKycLimits ==
  [level \in 1..3 |->
     IF level = 1 THEN [daily |-> 50000, perTransaction |-> 25000]
     ELSE IF level = 2 THEN [daily |-> 200000, perTransaction |-> 100000]
     ELSE [daily |-> 1000000, perTransaction |-> 500000]]

userKYCLevel(kyc_level) == IF kyc_level = 0 THEN 1 ELSE kyc_level

DomesticReason(kyc_level, amount) ==
  LET limits == domesticKycLimits[userKYCLevel(kyc_level)]
      dailyTotal == 0
  IN IF amount > limits.perTransaction THEN "EXCEEDS_TRANSACTION_LIMIT"
     ELSE IF dailyTotal + amount > limits.daily THEN "EXCEEDS_DAILY_LIMIT"
     ELSE "allowed"

DomesticLimitCheck(amount) ==
  /\ limitsResult' =
       [NoLimitsResult EXCEPT
          !.by = "domestic", !.kyc_level = user_limits.kyc_level,
          !.amount = amount,
          !.allowed = DomesticReason(user_limits.kyc_level, amount) = "allowed",
          !.reason = DomesticReason(user_limits.kyc_level, amount),
          !.at = today]
  /\ UNCHANGED <<user_limits, today>>
  /\ KYCLeft

(* Midnight.                                                               *)
NextDay ==
  /\ today < LastDay
  /\ today' = today + 1
  /\ UNCHANGED <<user_limits, limitsResult>>
  /\ KYCLeft

InitKYC ==
  /\ uniqueLedgerRef = FALSE
  /\ FundedStore
  /\ ComplianceIdle
  /\ ScheduledIdle
  /\ AuditIdle
  /\ ReportIdle
  /\ GatewayIdle
  /\ today = 0
  /\ \E level \in KycLevels : user_limits = UserLimitsRow(level, 0)
  /\ limitsResult = NoLimitsResult

NextKYC ==
  \/ \E amount \in CheckAmounts : KYCCheckTransactionLimits(amount)
  \/ \E amount \in SpendAmounts : UpdateSpentAmounts(amount)
  \/ \E newLevel \in KycLevels : UpgradeKYCLevel(newLevel)
  \/ \E amount \in CheckAmounts : DomesticLimitCheck(amount)
  \/ NextDay

SpecKYC == InitKYC /\ [][NextKYC]_vars

(***************************************************************************)
(* The scheduled transfer services.  services/scheduledTransferService.js  *)
(* runs executeScheduledTransfer(schedule_id) from a cron job per schedule *)
(* and selects the row WHERE status = 'active'; the other service runs     *)
(* processScheduledTransfers every minute, selects the rows WHERE status = *)
(* 'pending' and hands each to executeTransfer.  Neither locks the row.    *)
(* The occurrence moves amount from user 1 to user 2.  The writes of an    *)
(* execution wait for the row locks of a concurrent one and become visible *)
(* at its COMMIT, so the step from the first write to COMMIT is one step.  *)
(***************************************************************************)
ScheduledAmounts == 1..MaxLaunchAmount
SenderAccount == 1
RecipientAccount == 2

ScheduledLeft == UNCHANGED <<uniqueLedgerRef, transactions, lockHolder, call,
                             initBalance, deposited, kycLimits, history, mon,
                             reports, user_limits, today, limitsResult,
                             audit_trail, audit_trail_archive, security_logs,
                             auditCall, dailyReport, gatewayVars>>

(* The cron callback fires.                                                *)
Trigger(t, s) ==
  /\ exec[t].pc = "idle"
  /\ \A u \in Triggers : u < t => exec[u].pc # "idle"
  /\ exec' = [exec EXCEPT ![t] = [IdleExec EXCEPT !.pc = "select", !.scheduler = s]]
  /\ UNCHANGED <<scheduled_transfers, accounts, ledger>>
  /\ ScheduledLeft

(* The status check: the SELECT of the row, in its due status only.        *)
StatusCheck(row, s) == row.status = DueStatus(s)

SelectDue(t) ==
  /\ exec[t].pc = "select"
  /\ exec' = [exec EXCEPT
                ![t].pc = IF StatusCheck(scheduled_transfers[exec[t].scheduler],
                                         exec[t].scheduler)
                          THEN "balance" ELSE "returned"]
  /\ UNCHANGED <<scheduled_transfers, accounts, ledger>>
  /\ ScheduledLeft

(* The balance check.  An insufficient balance is logged and returned by   *)
(* executeScheduledTransfer, thrown and marked failed by executeTransfer.  *)
ReadBalance(t) ==
  /\ exec[t].pc = "balance"
  /\ LET s == exec[t].scheduler
         balance == accounts[SenderAccount].balance
         amount == scheduled_transfers[s].amount
     IN IF balance < amount
        THEN /\ exec' = [exec EXCEPT ![t].pc = "returned",
                                     ![t].balance = balance,
                                     ![t].error = "Insufficient balance"]
             /\ scheduled_transfers' =
                  IF s = "routes"
                  THEN [scheduled_transfers EXCEPT ![s].status = "failed"]
                  ELSE scheduled_transfers
        ELSE /\ exec' = [exec EXCEPT ![t].pc = "write", ![t].balance = balance]
             /\ UNCHANGED scheduled_transfers
  /\ UNCHANGED <<accounts, ledger>>
  /\ ScheduledLeft

WriteOutcomes == {"ok", "rejected"}

(* What the writes throw: both entries carry the same reference.           *)
ScheduledWriteError(ref, outcome) ==
  IF outcome = "rejected" THEN "query rejected"
  ELSE IF uniqueLedgerRef THEN "duplicate key ledger_entries"
  ELSE "none"

(* The entries, the two relative balance updates, the status update and    *)
(* COMMIT; in the catch, ROLLBACK and the failure record.                  *)
ExecuteWrites(t) ==
  /\ exec[t].pc = "write"
  /\ \E transactionRef \in Refs, outcome \in WriteOutcomes :
       LET s == exec[t].scheduler
           amount == scheduled_transfers[s].amount
           error == ScheduledWriteError(transactionRef, outcome)
       IN IF error # "none"
          THEN /\ exec' = [exec EXCEPT ![t].pc = "returned", ![t].error = error]
               /\ scheduled_transfers' =
                    IF s = "routes"
                    THEN [scheduled_transfers EXCEPT ![s].status = "failed"]
                    ELSE scheduled_transfers
               /\ UNCHANGED <<accounts, ledger>>
          ELSE /\ exec' = [exec EXCEPT ![t].pc = "committed"]
               /\ accounts' =
                    [accounts EXCEPT
                       ![SenderAccount].balance = @ - amount,
                       ![RecipientAccount].balance = @ + amount]
               /\ ledger' = ledger \o
                    <<[ref |-> transactionRef, account |-> SenderAccount,
                       entry_type |-> "debit", amount |-> amount,
                       balance_after |-> exec[t].balance - amount, op |-> NoCall],
                      [ref |-> transactionRef, account |-> RecipientAccount,
                       entry_type |-> "credit", amount |-> amount,
                       balance_after |-> accounts[RecipientAccount].balance + amount,
                       op |-> NoCall]>>
               /\ scheduled_transfers' =
                    [scheduled_transfers EXCEPT ![s].status = "completed"]
  /\ ScheduledLeft

InitScheduled ==
  /\ uniqueLedgerRef \in SchemaChoices
  /\ FundedStore
  /\ ComplianceIdle
  /\ KYCIdle
  /\ AuditIdle
  /\ ReportIdle
  /\ GatewayIdle
  /\ \E a1 \in ScheduledAmounts, a2 \in ScheduledAmounts :
       scheduled_transfers =
         [s \in Schedulers |-> [status |-> DueStatus(s),
                                amount |-> IF s = "services" THEN a1 ELSE a2,
                                cancelled_at |-> FALSE]]
  /\ exec = [t \in Triggers |-> IdleExec]

NextScheduled ==
  \E t \in Triggers :
    \/ \E s \in Schedulers : Trigger(t, s)
    \/ SelectDue(t)
    \/ ReadBalance(t)
    \/ ExecuteWrites(t)

SpecScheduled == InitScheduled /\ [][NextScheduled]_vars

(***************************************************************************)
(* AuditTrailService.  One logging call at a time (log) next to the weekly *)
(* archival job (job); every pool.query may reject.  created_at is the day *)
(* of the INSERT, and the clock's tick also stands for the resolution of   *)
(* the timestamp that generateAuditHash takes.  auditCall.written keeps    *)
(* every audit_trail row as it was inserted.                               *)
(***************************************************************************)
sensitiveFields == {"password", "pin", "pin_hash", "password_hash",
                    "secret", "token", "otp"}
Redacted == "[REDACTED]"

PlainValues == [NullValues EXCEPT !.isNull = FALSE, !.amount = 1]
Payloads == {PlainValues,
             [PlainValues EXCEPT !.pin = "1234"],
             [PlainValues EXCEPT !.credentials = [password |-> "hunter2"]]}

(* A shallow copy with the truthy top-level sensitive fields replaced.     *)
sanitizeSensitiveData(data) ==
  IF data.isNull THEN data
  ELSE [field \in DOMAIN data |->
          IF field \in sensitiveFields /\ data[field] # Absent
          THEN Redacted ELSE data[field]]

(* sha256 over the JSON text of the four identifying fields and of the     *)
(* instant of the call: equal digests for equal texts only.                *)
generateAuditHash(data, timestamp) ==
  <<"sha256", data.userId, data.action, data.entityType, data.entityId, timestamp>>

Identity(op, userId) ==
  IF op = "logTransaction"
  THEN [userId |-> userId, action |-> "TRANSACTION_CREATED",
        entityType |-> "TRANSACTION", entityId |-> 1]
  ELSE IF op = "logSecurityEvent"
  THEN [userId |-> userId, action |-> "SECURITY_EVENT",
        entityType |-> "SECURITY", entityId |-> userId]
  ELSE [userId |-> userId, action |-> "PROFILE_UPDATED",
        entityType |-> "USER", entityId |-> userId]

AuditOps == {"logAction", "logTransaction", "logSecurityEvent"}
AuditIds == 1..MaxAuditRecords
FreeAuditIds == AuditIds \ {w.id : w \in auditCall.written}

AuditLeft == UNCHANGED <<uniqueLedgerRef, accounts, transactions, ledger, lockHolder,
                         call, initBalance, deposited, kycLimits, history, mon,
                         reports, user_limits, limitsResult, scheduled_transfers,
                         exec, dailyReport, gatewayVars>>

(* A caller enters a logging entry point: directly, or transfer on its     *)
(* limit refusal (part_003:78-98).                                         *)
AuditCallers == {"direct", "transfer"}

LogStart(op, userId, values, caller) ==
  /\ auditCall.log.pc \in {"idle", "returned"}
  /\ auditCall.log.caller # "transfer" \/ auditCall.log.outcome # "none"
  /\ FreeAuditIds # {}
  /\ caller = "transfer" => op = "logSecurityEvent"
  /\ op = "logTransaction" => values = PlainValues
  /\ auditCall' = [auditCall EXCEPT
       !.log = [IdleAuditCall EXCEPT
                  !.op = op,
                  !.pc = IF op = "logSecurityEvent" THEN "security_logs"
                         ELSE "audit_trail",
                  !.data = Identity(op, userId),
                  !.values = values,
                  !.caller = caller]]
  /\ UNCHANGED <<audit_trail, audit_trail_archive, security_logs, today>>
  /\ AuditLeft

(* logSecurityEvent's INSERT INTO security_logs, awaited outside any try.  *)
SecurityLogWrite ==
  /\ auditCall.log.pc = "security_logs"
  /\ \E rejected \in BOOLEAN :
       IF rejected
       THEN /\ auditCall' = [auditCall EXCEPT !.log.pc = "returned",
                                              !.log.returned = "threw"]
            /\ UNCHANGED security_logs
       ELSE /\ security_logs' = security_logs \cup
                 {[user_id |-> auditCall.log.data.userId,
                   event_data |-> auditCall.log.values]}
            /\ auditCall' =
                 [auditCall EXCEPT
                    !.log.pc = "audit_trail",
                    !.log.values = [@ EXCEPT !.severity = "HIGH"]]
  /\ UNCHANGED <<audit_trail, audit_trail_archive, today>>
  /\ AuditLeft

(* logAction: sanitize, hash and INSERT INTO audit_trail inside the try;   *)
(* the catch returns null.                                                 *)
StoredValues(values) == sanitizeSensitiveData(values)

LogAction ==
  /\ auditCall.log.pc = "audit_trail"
  /\ \E rejected \in BOOLEAN :
       IF rejected
       THEN /\ auditCall' = [auditCall EXCEPT !.log.pc = "returned",
                                              !.log.returned = "null"]
            /\ UNCHANGED audit_trail
       ELSE LET id == CHOOSE i \in FreeAuditIds : \A j \in FreeAuditIds : i <= j
                row == [id |-> id,
                        user_id |-> auditCall.log.data.userId,
                        action |-> auditCall.log.data.action,
                        entity_type |-> auditCall.log.data.entityType,
                        entity_id |-> auditCall.log.data.entityId,
                        new_values |-> StoredValues(auditCall.log.values),
                        audit_hash |-> generateAuditHash(auditCall.log.data, today),
                        created_at |-> today]
            IN /\ audit_trail' = audit_trail \cup {row}
               /\ auditCall' = [auditCall EXCEPT !.log.pc = "returned",
                                                 !.log.returned = "auditId",
                                                 !.written = @ \cup {row}]
  /\ UNCHANGED <<audit_trail_archive, security_logs, today>>
  /\ AuditLeft

(* transfer after its logSecurityEvent of the limit refusal: the refusal   *)
(* is returned; a throw lands in the catch, which logs TRANSACTION_ERROR   *)
(* through logSecurityEvent and throws.                                    *)
TransferAfterAudit ==
  /\ auditCall.log.pc = "returned"
  /\ auditCall.log.caller \in {"transfer", "transfer catch"}
  /\ auditCall.log.outcome = "none"
  /\ IF auditCall.log.caller = "transfer" /\ auditCall.log.returned = "threw"
     THEN auditCall' = [auditCall EXCEPT
            !.log = [@ EXCEPT !.pc = "security_logs", !.returned = "none",
                              !.values = PlainValues,
                              !.caller = "transfer catch"]]
     ELSE auditCall' = [auditCall EXCEPT
            !.log.outcome = IF auditCall.log.caller = "transfer"
                            THEN "refused" ELSE "threw"]
  /\ UNCHANGED <<audit_trail, audit_trail_archive, security_logs, today>>
  /\ AuditLeft

(* Somebody with access to the table alters an identifying field.          *)
Tamper(id) ==
  /\ \E r \in audit_trail :
       /\ r.id = id
       /\ r.user_id = 1
       /\ audit_trail' = (audit_trail \ {r}) \cup {[r EXCEPT !.user_id = 2]}
  /\ UNCHANGED <<audit_trail_archive, security_logs, auditCall, today>>
  /\ AuditLeft

(* verifyAuditIntegrity: the hash is recomputed and left unused.           *)
Valid(record, expectedHash) == TRUE

VerifyAuditIntegrity(auditId) ==
  /\ \E record \in audit_trail :
       /\ record.id = auditId
       /\ LET expectedHash ==
                generateAuditHash([userId |-> record.user_id,
                                   action |-> record.action,
                                   entityType |-> record.entity_type,
                                   entityId |-> record.entity_id], today)
          IN auditCall' = [auditCall EXCEPT
               !.verified = [auditId |-> auditId,
                             valid |-> Valid(record, expectedHash),
                             recomputed |-> expectedHash = record.audit_hash,
                             unmodified |-> record \in auditCall.written]]
  /\ UNCHANGED <<audit_trail, audit_trail_archive, security_logs, today>>
  /\ AuditLeft

(* archiveOldRecords: the cutoff, the copy, the delete.                    *)
Archivable(record, cutoffDate) == record.created_at < cutoffDate
Deletable_All(record, cutoffDate) == TRUE
Deletable(record, cutoffDate) == record.created_at < cutoffDate

ArchiveStart(daysToKeep) ==
  /\ auditCall.job.pc \in {"idle", "returned"}
  /\ auditCall' = [auditCall EXCEPT
       !.job = [pc |-> "copy", cutoffDate |-> today - daysToKeep,
                returned |-> "none"]]
  /\ UNCHANGED <<audit_trail, audit_trail_archive, security_logs, today>>
  /\ AuditLeft

ArchiveCopy ==
  /\ auditCall.job.pc = "copy"
  /\ \E rejected \in BOOLEAN :
       IF rejected
       THEN /\ auditCall' = [auditCall EXCEPT !.job.pc = "returned",
                                              !.job.returned = "threw"]
            /\ UNCHANGED audit_trail_archive
       ELSE /\ audit_trail_archive' = audit_trail_archive \cup
                 {r \in audit_trail : Archivable(r, auditCall.job.cutoffDate)}
            /\ auditCall' = [auditCall EXCEPT !.job.pc = "delete"]
  /\ UNCHANGED <<audit_trail, security_logs, today>>
  /\ AuditLeft

ArchiveDelete ==
  /\ auditCall.job.pc = "delete"
  /\ \E rejected \in BOOLEAN :
       IF rejected
       THEN /\ auditCall' = [auditCall EXCEPT !.job.pc = "returned",
                                              !.job.returned = "threw"]
            /\ UNCHANGED audit_trail
       ELSE /\ audit_trail' =
                 {r \in audit_trail : ~Deletable(r, auditCall.job.cutoffDate)}
            /\ auditCall' = [auditCall EXCEPT !.job.pc = "returned",
                                              !.job.returned = "archived"]
  /\ UNCHANGED <<audit_trail_archive, security_logs, today>>
  /\ AuditLeft

InitAudit ==
  /\ uniqueLedgerRef = FALSE
  /\ FundedStore
  /\ ComplianceIdle
  /\ KYCIdle
  /\ ScheduledIdle
  /\ ReportIdle
  /\ GatewayIdle
  /\ AuditIdle

(* The logging entry points under every payload and caller.                *)
NextAudit ==
  \/ \E op \in AuditOps, values \in Payloads, caller \in AuditCallers :
       LogStart(op, 1, values, caller)
  \/ SecurityLogWrite
  \/ LogAction
  \/ TransferAfterAudit

SpecAudit == InitAudit /\ [][NextAudit]_vars

(* The stored records over time: written by logTransaction, altered,       *)
(* verified and archived, over MaxKeep + 1 midnights.                      *)
Midnight == today <= MaxKeep /\ NextDay

NextArchive ==
  \/ LogStart("logTransaction", 1, PlainValues, "direct")
  \/ LogAction
  \/ \E id \in AuditIds : Tamper(id)
  \/ \E id \in AuditIds : VerifyAuditIntegrity(id)
  \/ \E daysToKeep \in 0..MaxKeep : ArchiveStart(daysToKeep)
  \/ ArchiveCopy
  \/ ArchiveDelete
  \/ Midnight

SpecArchive == InitAudit /\ [][NextArchive]_vars

(***************************************************************************)
(* LedgerService.generateDailyReport for the running day: every entry of   *)
(* the run lies in its window.  SUM over no rows is NULL, parseFloat(NULL) *)
(* is NaN, and no comparison with NaN is true.                             *)
(***************************************************************************)
RECURSIVE SumEntries(_, _)
SumEntries(entryType, i) ==
  IF i = 0 THEN 0
  ELSE (IF ledger[i].entry_type = entryType THEN ledger[i].amount ELSE 0)
       + SumEntries(entryType, i - 1)

Abs(x) == IF x < 0 THEN 0 - x ELSE x

isBalanced(total_debits, total_credits, total_entries) ==
  total_entries > 0 /\ Abs(total_debits - total_credits) < 1

GenerateDailyReport ==
  /\ LET total_debits == SumEntries("debit", Len(ledger))
         total_credits == SumEntries("credit", Len(ledger))
         total_entries == Len(ledger)
     IN dailyReport' =
          [outcome |-> "returned",
           totalDebits |-> total_debits,
           totalCredits |-> total_credits,
           totalEntries |-> total_entries,
           isBalanced |-> isBalanced(total_debits, total_credits, total_entries)]
  /\ UNCHANGED <<uniqueLedgerRef, accounts, transactions, ledger, lockHolder, call,
                 initBalance, deposited, kycLimits, history, mon, reports,
                 user_limits, today, limitsResult, scheduled_transfers, exec,
                 audit_trail, audit_trail_archive, security_logs, auditCall,
                 gatewayVars>>

(* The report next to the requests of one caller at a time.                *)
NextReport ==
  \/ \E p \in {1} :
       \/ \E f \in Users, t \in Users, x \in Amounts : RecordTransferStart(p, f, t, x)
       \/ \E u \in Users, x \in Amounts : DepositStart(p, u, x)
       \/ GetOrCreateSelect(p)
       \/ GetOrCreateInsert(p)
       \/ LockFrom(p)
       \/ LockTo(p)
       \/ TransferWrite(p)
       \/ DepositLock(p)
       \/ DepositWrite(p)
  \/ GenerateDailyReport

SpecReport == Init /\ [][NextReport]_vars

(***************************************************************************)
(* LedgerService.getBalance and getTransactionHistory.  Both start with    *)
(* getOrCreateAccount; getBalance returns from the row it got, the history *)
(* is one more SELECT on ledger_entries, newest first, at most limit rows. *)
(***************************************************************************)
HistoryLimit == 20

GetBalanceStart(p, userId) ==
  /\ CanStart(p)
  /\ call' = [call EXCEPT ![p] =
                [IdleCall EXCEPT !.pc = "goc_select", !.op = "getBalance",
                                 !.id = p, !.stage = "to", !.toUser = userId]]
  /\ UNCHANGED <<complianceVars, uniqueLedgerRef, accounts, transactions, ledger,
                 lockHolder, initBalance, deposited>>

GetTransactionHistoryStart(p, userId) ==
  /\ CanStart(p)
  /\ call' = [call EXCEPT ![p] =
                [IdleCall EXCEPT !.pc = "goc_select",
                                 !.op = "getTransactionHistory",
                                 !.id = p, !.stage = "to", !.toUser = userId]]
  /\ UNCHANGED <<complianceVars, uniqueLedgerRef, accounts, transactions, ledger,
                 lockHolder, initBalance, deposited>>

(* The entries returned: their number is kept as the result.               *)
HistoryRows(a) ==
  LET n == Cardinality({i \in 1..Len(ledger) : ledger[i].account = a})
  IN IF n > HistoryLimit THEN HistoryLimit ELSE n

GetTransactionHistoryQuery(p) ==
  /\ call[p].pc = "history_query"
  /\ call' = [call EXCEPT ![p].pc = "done",
                          ![p].toBal = HistoryRows(call[p].toAcc)]
  /\ UNCHANGED <<complianceVars, uniqueLedgerRef, accounts, transactions, ledger,
                 lockHolder, initBalance, deposited>>

(* Reads next to deposits, NumLaunched requests in any interleaving.       *)
NextRead ==
  \E p \in 1..NumLaunched :
    \/ \E u \in Users : GetBalanceStart(p, u)
    \/ \E u \in Users : GetTransactionHistoryStart(p, u)
    \/ \E u \in Users, x \in PositiveAmounts : DepositStart(p, u, x)
    \/ GetOrCreateSelect(p)
    \/ GetOrCreateInsert(p)
    \/ GetTransactionHistoryQuery(p)
    \/ DepositLock(p)
    \/ DepositWrite(p)

SpecRead == InitConcurrent /\ [][NextRead]_vars

(***************************************************************************)
(* recordTransfer calls in both directions under the scheduling the        *)
(* runtime gives them: a handler whose awaited statement has returned runs *)
(* on, a row lock that stays free is granted to its waiter, and the        *)
(* deadlock detector fires on a cycle that stays.  Requests need not       *)
(* arrive.                                                                 *)
(***************************************************************************)
TransferStep(p) ==
  \/ GetOrCreateSelect(p)
  \/ GetOrCreateInsert(p)
  \/ LockFrom(p)
  \/ LockTo(p)
  \/ TransferWrite(p)
  \/ DeadlockAbort(p)

(* Two requests at a time: what a lock cycle over two accounts takes.      *)
LiveCalls == {1, 2}

NextLive ==
  \E p \in LiveCalls :
    \/ \E f \in Users, t \in Users, x \in LaunchAmounts : RecordTransferStart(p, f, t, x)
    \/ TransferStep(p)

SpecLive ==
  /\ InitConcurrent
  /\ [][NextLive]_vars
  /\ \A p \in LiveCalls : WF_vars(TransferStep(p))

(***************************************************************************)
(* MoneyRequestService.  The approve route first reads the request's       *)
(* amount for the limit middleware (404 when it is not pending), then      *)
(* approveRequest runs in one transaction on a pooled connection: the      *)
(* request WHERE status = 'pending' (no FOR UPDATE), the approver's        *)
(* balance, one INSERT of both ledger entries under one reference, the two *)
(* relative balance updates, the status update WHERE request_id = $2 and   *)
(* COMMIT.  The writes wait for the row locks of a concurrent approval and *)
(* become visible at its COMMIT, so the step from the INSERT to COMMIT is  *)
(* one step.  The approver is user 1, the requester user 2; the request    *)
(* has not expired.                                                        *)
(***************************************************************************)
RequestsLeft == UNCHANGED <<uniqueLedgerRef, transactions, lockHolder, call,
                            initBalance, deposited, kycLimits, history, mon,
                            reports, user_limits, today, limitsResult,
                            audit_trail, audit_trail_archive, security_logs,
                            auditCall, dailyReport, redis, validate, clients,
                            handler>>

(* routes/requests.js: the pending check, then checkTransactionLimits.     *)
ApproveRoute ==
  /\ Len(approve) < NumCalls
  /\ \E allowed \in BOOLEAN :
       approve' = Append(approve,
                     IF money_requests.status # "pending"
                     THEN [IdleApprove EXCEPT !.pc = "failed",
                                              !.error = "Request not found"]
                     ELSE IF ~allowed
                          THEN [IdleApprove EXCEPT !.pc = "failed",
                                                   !.error = "limit exceeded"]
                          ELSE [IdleApprove EXCEPT !.pc = "select"])
  /\ UNCHANGED <<money_requests, scheduled_transfers, exec, accounts, ledger>>
  /\ RequestsLeft

(* BEGIN and the SELECT of the pending request.                            *)
ApproveSelect(p) ==
  /\ p \in DOMAIN approve
  /\ approve[p].pc = "select"
  /\ approve' = [approve EXCEPT ![p] =
                   IF money_requests.status = "pending"
                   THEN [@ EXCEPT !.pc = "balance",
                                  !.amount = money_requests.amount]
                   ELSE [@ EXCEPT !.pc = "failed",
                                  !.error = "Request not found or expired"]]
  /\ UNCHANGED <<money_requests, scheduled_transfers, exec, accounts, ledger>>
  /\ RequestsLeft

(* The approver's balance, read without a lock.                            *)
ApproveReadBalance(p) ==
  /\ p \in DOMAIN approve
  /\ approve[p].pc = "balance"
  /\ LET balance == accounts[SenderAccount].balance
     IN approve' = [approve EXCEPT ![p] =
                      IF balance < approve[p].amount
                      THEN [@ EXCEPT !.pc = "failed", !.balance = balance,
                                     !.error = "Insufficient balance"]
                      ELSE [@ EXCEPT !.pc = "write", !.balance = balance]]
  /\ UNCHANGED <<money_requests, scheduled_transfers, exec, accounts, ledger>>
  /\ RequestsLeft

(* The entries, the balance updates, the status update and COMMIT; a throw *)
(* reaches the catch and ROLLBACK.                                         *)
ApproveWrite(p) ==
  /\ p \in DOMAIN approve
  /\ approve[p].pc = "write"
  /\ \E transactionRef \in Refs, outcome \in WriteOutcomes :
       LET amount == approve[p].amount
           error == ScheduledWriteError(transactionRef, outcome)
       IN IF error # "none"
          THEN /\ approve' = [approve EXCEPT ![p].pc = "failed", ![p].error = error]
               /\ UNCHANGED <<money_requests, accounts, ledger>>
          ELSE /\ approve' = [approve EXCEPT ![p].pc = "done"]
               /\ accounts' =
                    [accounts EXCEPT
                       ![SenderAccount].balance = @ - amount,
                       ![RecipientAccount].balance = @ + amount]
               /\ ledger' = ledger \o
                    <<[ref |-> transactionRef, account |-> SenderAccount,
                       entry_type |-> "debit", amount |-> amount,
                       balance_after |-> approve[p].balance - amount, op |-> NoCall],
                      [ref |-> transactionRef, account |-> RecipientAccount,
                       entry_type |-> "credit", amount |-> amount,
                       balance_after |-> accounts[RecipientAccount].balance + amount,
                       op |-> NoCall]>>
               /\ money_requests' = [money_requests EXCEPT !.status = "approved",
                                                           !.approved_at = TRUE]
  /\ UNCHANGED <<scheduled_transfers, exec>>
  /\ RequestsLeft

(* declineRequest and cancelRequest: one UPDATE ... WHERE status =         *)
(* 'pending' RETURNING *; without a row it throws and nothing changes.     *)
DeclineRequest ==
  /\ money_requests.status = "pending"
  /\ money_requests' = [money_requests EXCEPT !.status = "declined",
                                              !.declined_at = TRUE]
  /\ UNCHANGED <<approve, scheduled_transfers, exec, accounts, ledger>>
  /\ RequestsLeft

CancelRequest ==
  /\ money_requests.status = "pending"
  /\ money_requests' = [money_requests EXCEPT !.status = "cancelled",
                                              !.cancelled_at = TRUE]
  /\ UNCHANGED <<approve, scheduled_transfers, exec, accounts, ledger>>
  /\ RequestsLeft

InitRequests ==
  /\ uniqueLedgerRef \in SchemaChoices
  /\ FundedStore
  /\ ComplianceIdle
  /\ ServicesIdle

NextRequests ==
  \/ ApproveRoute
  \/ \E p \in Approvers :
       \/ ApproveSelect(p)
       \/ ApproveReadBalance(p)
       \/ ApproveWrite(p)
  \/ DeclineRequest
  \/ CancelRequest

SpecRequests == InitRequests /\ [][NextRequests]_vars

(***************************************************************************)
(* routes/scheduled.js, DELETE /transfer/:id: one UPDATE to 'cancelled'    *)
(* WHERE status = 'pending' RETURNING *; without a row, 404.  The spec     *)
(* below runs it and the money request's cancel and decline against the    *)
(* minute scheduler and the approvals.                                     *)
(***************************************************************************)
CancelScheduled(s) ==
  /\ scheduled_transfers[s].status = "pending"
  /\ scheduled_transfers' = [scheduled_transfers EXCEPT ![s].status = "cancelled",
                                                        ![s].cancelled_at = TRUE]
  /\ UNCHANGED <<exec, accounts, ledger, money_requests, approve>>
  /\ RequestsLeft

NextCancel ==
  \/ NextRequests
  \/ \E t \in Triggers :
       \/ Trigger(t, "routes")
       \/ SelectDue(t)
       \/ ReadBalance(t)
       \/ ExecuteWrites(t)
  \/ \E s \in Schedulers : CancelScheduled(s)

SpecCancel == InitRequests /\ [][NextCancel]_vars

(***************************************************************************)
(* TwoFactorAuthService: generate2FAToken stores 2fa_token:<token> with a  *)
(* 15 minute expiry; validate2FAToken is a GET, and for a key that was     *)
(* there a DEL, two commands with an await between them.  transfer calls   *)
(* it for the token the request carries (part_003:33-53).                  *)
(***************************************************************************)
TwoFactorLeft == UNCHANGED <<uniqueLedgerRef, accounts, transactions, ledger,
                             lockHolder, call, initBalance, deposited, kycLimits,
                             history, mon, reports, user_limits, today,
                             limitsResult, scheduled_transfers, exec, audit_trail,
                             audit_trail_archive, security_logs, auditCall,
                             dailyReport, money_requests, approve, clients,
                             handler>>

(* crypto.randomBytes(32): a token not issued before; the next index       *)
(* stands for it.                                                          *)
Stored(token) == token \in DOMAIN redis /\ redis[token] = "stored"

generate2FAToken ==
  /\ Len(redis) < MaxRef
  /\ redis' = Append(redis, "stored")
  /\ UNCHANGED validate
  /\ TwoFactorLeft

(* The expiry set by setex.                                                *)
ExpireToken(token) ==
  /\ Stored(token)
  /\ redis' = [redis EXCEPT ![token] = "gone"]
  /\ UNCHANGED validate
  /\ TwoFactorLeft

ValidateStart(token) ==
  /\ Len(validate) < NumLaunched
  /\ validate' = Append(validate, [IdleValidate EXCEPT !.pc = "get",
                                                       !.token = token])
  /\ UNCHANGED redis
  /\ TwoFactorLeft

(* redis.get: without data, { valid: false }.                              *)
ValidateGet(v) ==
  /\ v \in DOMAIN validate
  /\ validate[v].pc = "get"
  /\ LET data == Stored(validate[v].token)
     IN validate' = [validate EXCEPT ![v].data = data,
                                     ![v].pc = IF data THEN "del" ELSE "returned",
                                     ![v].valid = FALSE]
  /\ UNCHANGED redis
  /\ TwoFactorLeft

(* redis.del, then { valid: true, ... } from the data read before.  DEL of *)
(* a key that is gone deletes nothing.                                     *)
ValidateDel(v) ==
  /\ v \in DOMAIN validate
  /\ validate[v].pc = "del"
  /\ redis' = [redis EXCEPT ![validate[v].token] = "gone"]
  /\ validate' = [validate EXCEPT ![v].pc = "returned", ![v].valid = TRUE]
  /\ TwoFactorLeft

NextTwoFactor ==
  \/ generate2FAToken
  \/ \E token \in Tokens : ExpireToken(token)
  \/ \E token \in Tokens : ValidateStart(token)
  \/ \E v \in Validators :
       \/ ValidateGet(v)
       \/ ValidateDel(v)

InitTwoFactor ==
  /\ uniqueLedgerRef = FALSE
  /\ FundedStore
  /\ ComplianceIdle
  /\ ServicesIdle

SpecTwoFactor == InitTwoFactor /\ [][NextTwoFactor]_vars

(***************************************************************************)
(* The handlers that open a transaction on a pooled connection:            *)
(* POST /domestic of routes/transfer.js and executeScheduledTransfer of    *)
(* services/scheduledTransferService.js.  Both take the client before the  *)
(* try and release it in the finally; what the checks between BEGIN and    *)
(* the writes find is the handler's input.  A connection keeps its open    *)
(* transaction across release and the next pool.connect; BEGIN inside one  *)
(* is a warning and leaves it open.                                        *)
(***************************************************************************)
PoolLeft == UNCHANGED <<uniqueLedgerRef, accounts, transactions, ledger,
                        lockHolder, call, initBalance, deposited, kycLimits,
                        history, mon, reports, user_limits, today, limitsResult,
                        scheduled_transfers, exec, audit_trail,
                        audit_trail_archive, security_logs, auditCall,
                        dailyReport, money_requests, approve, redis, validate>>

HandlerKinds == {"domestic", "scheduled"}
FreeClients == ClientIds \ clients.leased

(* pool.connect(): an idle connection, or the wait for one.                *)
PoolConnect(kind) ==
  /\ Len(handler) < NumLaunched
  /\ FreeClients # {}
  /\ LET c == CHOOSE x \in FreeClients : \A y \in FreeClients : x <= y
     IN /\ clients' = [clients EXCEPT !.leased = @ \cup {c}]
        /\ handler' = Append(handler,
                         [pc |-> IF kind = "domestic" THEN "limits" ELSE "begin",
                          kind |-> kind, client |-> c])
  /\ PoolLeft

(* POST /domestic before BEGIN: the per-transaction, daily and minimum     *)
(* amount checks, each a return res.status(400).                           *)
DomesticLimits(h) ==
  /\ h \in DOMAIN handler
  /\ handler[h].pc = "limits"
  /\ \E accepted \in BOOLEAN :
       handler' = [handler EXCEPT ![h].pc = IF accepted THEN "begin" ELSE "finally"]
  /\ UNCHANGED clients
  /\ PoolLeft

Begin(h) ==
  /\ h \in DOMAIN handler
  /\ handler[h].pc = "begin"
  /\ clients' = [clients EXCEPT !.inTransaction = @ \cup {handler[h].client}]
  /\ handler' = [handler EXCEPT ![h].pc = "checks"]
  /\ PoolLeft

(* Between BEGIN and the writes.  POST /domestic: a missing wallet throws; *)
(* a locked wallet, an insufficient balance, an unknown receiver and a     *)
(* self-transfer return res.status(...).  executeScheduledTransfer: no     *)
(* active row returns; a missing account throws; an insufficient balance   *)
(* logs the failure, COMMITs and returns.                                  *)
CheckOutcomes(kind) ==
  IF kind = "domestic" THEN {"ok", "throw", "return"}
  ELSE {"ok", "throw", "return", "commit and return"}

AfterChecks(outcome) ==
  IF outcome = "ok" THEN "writes"
  ELSE IF outcome = "throw" THEN "catch"
  ELSE "finally"

Checks(h) ==
  /\ h \in DOMAIN handler
  /\ handler[h].pc = "checks"
  /\ \E outcome \in CheckOutcomes(handler[h].kind) :
       /\ handler' = [handler EXCEPT ![h].pc = AfterChecks(outcome)]
       /\ clients' = IF outcome = "commit and return"
                     THEN [clients EXCEPT !.inTransaction = @ \ {handler[h].client}]
                     ELSE clients
  /\ PoolLeft

(* The writes and COMMIT, or a throw on the way.                           *)
WritesAndCommit(h) ==
  /\ h \in DOMAIN handler
  /\ handler[h].pc = "writes"
  /\ \E outcome \in WriteOutcomes :
       IF outcome = "ok"
       THEN /\ clients' = [clients EXCEPT !.inTransaction = @ \ {handler[h].client}]
            /\ handler' = [handler EXCEPT ![h].pc = "finally"]
       ELSE /\ handler' = [handler EXCEPT ![h].pc = "catch"]
            /\ UNCHANGED clients
  /\ PoolLeft

(* catch: ROLLBACK.                                                        *)
CatchRollback(h) ==
  /\ h \in DOMAIN handler
  /\ handler[h].pc = "catch"
  /\ clients' = [clients EXCEPT !.inTransaction = @ \ {handler[h].client}]
  /\ handler' = [handler EXCEPT ![h].pc = "finally"]
  /\ PoolLeft

(* finally: client.release().                                              *)
Release(h) ==
  /\ h \in DOMAIN handler
  /\ handler[h].pc = "finally"
  /\ clients' = [clients EXCEPT !.leased = @ \ {handler[h].client}]
  /\ handler' = [handler EXCEPT ![h].pc = "released"]
  /\ PoolLeft

NextPool ==
  \/ \E kind \in HandlerKinds : PoolConnect(kind)
  \/ \E h \in Handlers :
       \/ DomesticLimits(h)
       \/ Begin(h)
       \/ Checks(h)
       \/ WritesAndCommit(h)
       \/ CatchRollback(h)
       \/ Release(h)

SpecPool == InitTwoFactor /\ [][NextPool]_vars

(***************************************************************************)
(* Properties.                                                             *)
(***************************************************************************)
RECURSIVE SumOver(_, _)
SumOver(f, S) ==
  IF S = {} THEN 0
  ELSE LET a == CHOOSE x \in S : TRUE IN f[a] + SumOver(f, S \ {a})

InitialTotal == SumOver(initBalance, AccountIds)
Finished(p) == call[p].pc \in {"done", "failed"}
EntriesOf(p) == {i \in 1..Len(ledger) : ledger[i].op = p}
EntriesOn(a) == {i \in 1..Len(ledger) : ledger[i].account = a}
LastEntryOn(a) == CHOOSE i \in EntriesOn(a) : \A j \in EntriesOn(a) : j <= i

ValidAmounts == \A p \in Launched : call[p].amount > 0

(* C1: the sum of all account balances, less the committed deposits, stays *)
(* what it was at the start: no recordTransfer creates or destroys money   *)
(* (stated for calls with amount > 0).                                     *)
C1_BalanceConservation == ValidAmounts => TotalBalance = InitialTotal + deposited

(* C2: after any committed recordTransfer and deposit operations every     *)
(* account balance is greater than or equal to zero.                       *)
C2_NoNegativeBalance ==
  \A a \in AccountIds : accounts[a].exists => accounts[a].balance >= 0

(* With every amount positive the ledger engine keeps balances at or above *)
(* zero: C2 fails through amounts <= 0 only.                               *)
NoNegativeBalanceForValidAmounts == ValidAmounts => C2_NoNegativeBalance

(* C3: of the recordTransfer calls launched concurrently from one source   *)
(* to one destination, each for amount a against starting balance b, at    *)
(* most floor(b/a) succeed.                                                *)
C3_ConcurrentTransferSafety ==
  \A x \in LaunchAmounts :
    (\A q \in Launched : call[q].amount = x) =>
      Cardinality({p \in Slots : call[p].pc = "done"}) <= initBalance[1] \div x

(* C3 witness: every launched call has finished, exactly floor(b/a) >= 2   *)
(* of them succeeded and another, launched against the same starting       *)
(* balance, was refused for insufficient balance under lock.               *)
C3_Witness ==
  /\ \A p \in 1..NumLaunched : Finished(p)
  /\ Cardinality({p \in Slots : call[p].pc = "done"}) >= 2
  /\ \E p \in Slots : call[p].pc = "failed" /\ call[p].error = "Insufficient balance"
  /\ Cardinality({p \in Slots : call[p].pc = "done"})
       = initBalance[1] \div call[1].amount

(* C4: two wallet transfers that each passed the sufficiency check never   *)
(* together drive the debited account's balance below zero.                *)
C4_DebitDecidedUnderLock ==
  \A p \in Slots :
    (call[p].op = "wallet" /\ call[p].pc = "done") =>
      accounts[call[p].fromAcc].balance >= 0

(* C5: recordTransfer takes its two row locks in one fixed order, so two   *)
(* concurrent transfers A to B and B to A never wait for each other's      *)
(* lock.                                                                   *)
C5_NoLockOrderDeadlock == ValidAmounts => \A p \in Slots : ~Deadlocked(p)

(* C6: a recordTransfer call that failed left nothing behind: no account   *)
(* row, no transaction row and no ledger entry written by it is stored.    *)
C6_AllOrNothing ==
  \A p \in Slots :
    (call[p].op = "transfer" /\ call[p].pc = "failed") =>
      /\ \A a \in AccountIds : ~(accounts[a].exists /\ accounts[a].creator = p)
      /\ EntriesOf(p) = {}
      /\ \A t \in transactions : t.op # p

(* C7: a recordTransfer call with amount <= 0 ends in failure with the     *)
(* invalid-amount error and writes no ledger entry.                        *)
C7_InvalidAmountRejected ==
  \A p \in Slots :
    (call[p].op = "transfer" /\ call[p].amount <= 0 /\ Finished(p)) =>
      /\ call[p].pc = "failed"
      /\ call[p].error = "Invalid amount"
      /\ EntriesOf(p) = {}

(* C8: a transfer of x > 0 between two different active accounts, the      *)
(* sender holding a >= x under lock, ends committed: exactly two entries   *)
(* carry its reference, a debit of x on the sender with balance a - x and  *)
(* a credit of x on the receiver with balance b + x, and its transaction   *)
(* row is completed.                                                       *)
C8_EndToEndTransfer ==
  \A p \in Slots :
    LET c == call[p] IN
    (/\ c.op = "transfer" /\ Finished(p)
     /\ c.fromAcc # c.toAcc /\ c.fromAcc # NoAccount /\ c.toAcc # NoAccount
     /\ c.amount > 0 /\ c.fromBal >= c.amount
     /\ c.fromStatus = "active" /\ c.toStatus = "active") =>
      /\ c.pc = "done"
      /\ c.fromNew = c.fromBal - c.amount
      /\ c.toNew = c.toBal + c.amount
      /\ Cardinality(EntriesOf(p)) = 2
      /\ \E i, j \in EntriesOf(p) :
           /\ ledger[i] = DebitEntry(c, c.fromBal - c.amount)
           /\ ledger[j] = CreditEntry(c, c.toBal + c.amount)
      /\ \E t \in transactions :
           t.op = p /\ t.ref = c.ref /\ t.status = "completed" /\ t.amount = c.amount

(* C9: the balanceAfter of the latest committed entry of an account is the *)
(* account's balance (checked for entries of transfers between two         *)
(* different accounts).                                                    *)
C9_BalanceAfterIsBalance ==
  \A a \in AccountIds :
    (/\ EntriesOn(a) # {}
     /\ call[ledger[LastEntryOn(a)].op].fromAcc # call[ledger[LastEntryOn(a)].op].toAcc) =>
      ledger[LastEntryOn(a)].balance_after = accounts[a].balance

(* C10: every committed transfer entry is on an account whose status is    *)
(* active.                                                                 *)
C10_OnlyActiveAccountsMove ==
  \A i \in 1..Len(ledger) :
    call[ledger[i].op].op \in {"transfer", "wallet"} =>
      accounts[ledger[i].account].status = "active"

(* C11: a wallet transfer that reported failure to its caller (returned    *)
(* success:false or threw) has committed no ledger entry, hence no balance *)
(* change: entries and balances are committed together.                    *)
C11_FailureLeavesNoPartialState ==
  \A p \in Slots :
    (call[p].op = "wallet" /\ call[p].pc = "failed") => EntriesOf(p) = {}

(* C12: a wallet transfer has committed ledger entries and balance updates *)
(* only after its limit check answered allowed and then monitoring         *)
(* answered not blocked; a limit-denied or blocked request has committed   *)
(* nothing.                                                                *)
C12_CommitOnlyAfterLimitAndMonitoring ==
  \A p \in Slots :
    call[p].op = "wallet" =>
      /\ call[p].monitoringResult # "none" => call[p].limitsCheck = "allowed"
      /\ call[p].pc \in {"w_update_sender", "w_update_recipient", "w_commit", "w_post"}
           => call[p].limitsCheck = "allowed" /\ call[p].monitoringResult = "pass"
      /\ EntriesOf(p) # {} =>
           call[p].limitsCheck = "allowed" /\ call[p].monitoringResult = "pass"
      /\ (call[p].limitsCheck \notin {"none", "allowed"}
          \/ call[p].monitoringResult = "blocked") =>
           /\ call[p].pc = "failed"
           /\ EntriesOf(p) = {}

(* C12 witness: one transfer was allowed, passed monitoring and committed  *)
(* its entries, another was stopped by a blocked verdict.                  *)
C12_Witness ==
  \E p, q \in Slots :
    /\ call[p].op = "wallet" /\ call[p].pc = "done" /\ EntriesOf(p) # {}
    /\ call[p].limitsCheck = "allowed" /\ call[p].monitoringResult = "pass"
    /\ call[q].op = "wallet" /\ call[q].pc = "failed"
    /\ call[q].monitoringResult = "blocked"

(* C20: the debits a user has committed within the day never exceed the   *)
(* daily limit: two concurrent transfers of one user never both pass the   *)
(* daily-limit check when together with the amount already spent they     *)
(* exceed dailyLimit.                                                      *)
C20_DailyLimitSerialized ==
  \A u \in Users : getDailyTransactionTotal(u) <= kycLimits.daily_limit

RuleEvaluators == {"generateCTR", "checkVelocity", "detectStructuring",
                   "detectSuspiciousPatterns", "checkDormantAccount",
                   "checkSanctionsRealTime", "checkPEPTransaction"}

C14_FailOpenPerRule ==
  (mon.threw \in RuleEvaluators /\ mon.result.returned = "verdict") =>
    /\ mon.result.alerts = mon.alerts
    /\ mon.result.blocked <=>
         \E i \in 1..Len(mon.alerts) :
           /\ mon.alerts[i].severity = "CRITICAL"
           /\ mon.alerts[i].type \in {"SANCTIONS_HIT", "STRUCTURING", "DECEASED"}

(* C15: monitorTransaction never throws to its caller, whichever of its    *)
(* dependencies is unavailable, so a transfer never fails for monitoring   *)
(* being unavailable.                                                      *)
C15_MonitoringNeverThrows == mon.result.returned # "thrown"

C18_ExactlyOneCTR ==
  (/\ mon.pc = "finished"
   /\ mon.amount >= 2000000
   /\ mon.threw = "none"
   /\ mon.transfer \in {"completed", "refused"}) =>
    Len(reports.ctrs) = 1

(* C19: once an evaluation has returned, every alert a rule pushed for the *)
(* transaction is stored in monitoring_alerts.                             *)
C19_AlertsPersisted ==
  mon.result.returned = "verdict" =>
    \A i \in 1..Len(mon.alerts) : mon.alerts[i].type \in reports.monitoring_alerts

(***************************************************************************)
(* C21: the sender's daily_spent and monthly_spent counters grow by the    *)
(* amount of each of their committed transfers and by nothing else: once   *)
(* every transfer has finished, the counters equal the committed debits of *)
(* the sender.                                                             *)
(***************************************************************************)
C21_SpendCommittedToCounters ==
  (\A p \in Calls : call[p].pc \in {"idle", "done", "failed"}) =>
    /\ user_limits.daily_spent = getDailyTransactionTotal(1)
    /\ user_limits.monthly_spent = getMonthlyTransactionTotal(1)

(***************************************************************************)
(* C22: a limit check made after the calendar day (month) moved past the   *)
(* stored daily_reset_at (monthly_reset_at) compares the amount against a  *)
(* zeroed counter and leaves the reset timestamp at the day of the check.  *)
(***************************************************************************)
MonthOf(t) == t \div DaysPerMonth

C22_ResetBeforeCeilingCheck ==
  limitsResult.by = "KYCLimitsService" =>
    /\ limitsResult.daily_reset_at < limitsResult.at =>
         /\ limitsResult.daily_spent = 0
         /\ user_limits.daily_reset_at = limitsResult.at
    /\ MonthOf(limitsResult.monthly_reset_at) < MonthOf(limitsResult.at) =>
         /\ limitsResult.monthly_spent = 0
         /\ user_limits.monthly_reset_at = limitsResult.at

(***************************************************************************)
(* C23: every limit check made for a user at KYC level 0 denies, with the  *)
(* KYC-required reason, whatever the amount.                               *)
(***************************************************************************)
C23_TierZeroAlwaysDenied ==
  (limitsResult.by # "none" /\ limitsResult.kyc_level = 0) =>
    /\ ~limitsResult.allowed
    /\ limitsResult.reason = "KYC verification required"

(***************************************************************************)
(* C24: however often, and however concurrently, a scheduler triggers the  *)
(* execution of the due occurrence, at most one execution moves money for  *)
(* it.                                                                     *)
(***************************************************************************)
Moved(s) == {t \in Triggers : exec[t].scheduler = s /\ exec[t].pc = "committed"}

C24_ScheduledExecutedAtMostOnce ==
  \A s \in Schedulers : Cardinality(Moved(s)) <= 1

(***************************************************************************)
(* C25: no logging entry point of the audit trail throws when a write to   *)
(* the store fails, and a transfer that logs through it reports the        *)
(* outcome it had decided.                                                 *)
(***************************************************************************)
C25_AuditFailureNeverPropagates ==
  /\ auditCall.log.returned # "threw"
  /\ auditCall.log.outcome # "threw"

(***************************************************************************)
(* C26: no row written by the audit trail, in audit_trail, its archive or  *)
(* security_logs, holds the value of a sensitive field unredacted.         *)
(***************************************************************************)
Exposed(values) ==
  /\ ~values.isNull
  /\ \/ \E field \in DOMAIN values \cap sensitiveFields :
          values[field] \notin {Absent, Redacted}
     \/ \E field \in DOMAIN values.credentials \cap sensitiveFields :
          values.credentials[field] \notin {Absent, Redacted}

C26_SensitiveFieldsRedacted ==
  /\ \A r \in audit_trail \cup audit_trail_archive : ~Exposed(r.new_values)
  /\ \A r \in security_logs : ~Exposed(r.event_data)

(***************************************************************************)
(* C27: recomputing the integrity marker of a stored record gives the      *)
(* stored marker exactly when the record's identifying fields are as they  *)
(* were written, and verification reports an altered record as invalid.    *)
(***************************************************************************)
C27_IntegrityMarkerVerifies ==
  auditCall.verified.auditId # 0 =>
    /\ auditCall.verified.recomputed <=> auditCall.verified.unmodified
    /\ ~auditCall.verified.unmodified => ~auditCall.verified.valid

(***************************************************************************)
(* C28: every audit record ever written is in audit_trail or in            *)
(* audit_trail_archive, at every point of an archival run, also when the   *)
(* run fails between its copy and its delete.                              *)
(***************************************************************************)
C28_ArchiveNeverLosesRecords ==
  \A w \in auditCall.written :
    \E r \in audit_trail \cup audit_trail_archive : r.id = w.id

C28_Witness ==
  /\ auditCall.job.returned = "threw"
  /\ \E r \in audit_trail : \E a \in audit_trail_archive : a.id = r.id

(***************************************************************************)
(* C29: when the debits and the credits of the day differ, the daily       *)
(* report ends in an integrity failure and not in a returned report.       *)
(***************************************************************************)
C29_MismatchIsIntegrityFailure ==
  (dailyReport.outcome # "none"
     /\ dailyReport.totalDebits # dailyReport.totalCredits) =>
    dailyReport.outcome = "IntegrityViolation"

(***************************************************************************)
(* C30: the references of the transactions are pairwise different, and a   *)
(* request whose generated reference is already taken is given a fresh one *)
(* instead of failing on it.                                               *)
(***************************************************************************)
C30_ReferencesRegenerated ==
  /\ \A t1 \in transactions, t2 \in transactions : t1.ref = t2.ref => t1 = t2
  /\ \A p \in Calls : call[p].error # "duplicate key transactions"

(***************************************************************************)
(* C34: each user owns at most one customer-wallet account, also when      *)
(* getOrCreateAccount runs concurrently for a user who has none yet.       *)
(***************************************************************************)
C34_OneWalletPerUser ==
  \A u \in Users : Cardinality(AccountsOf(u)) <= 1

(***************************************************************************)
(* C35: a recordTransfer whose sender and receiver are the same user is    *)
(* rejected or leaves the balance of that user's account as it was before  *)
(* the call.  Stated for the single caller of SpecReport, whose call       *)
(* starts from the initial balances.                                       *)
(***************************************************************************)
C35_SelfTransferKeepsBalance ==
  \A p \in Calls :
    (/\ call[p].op = "transfer"
     /\ call[p].fromUser = call[p].toUser
     /\ Finished(p))
    => \A a \in AccountsOf(call[p].fromUser) :
         accounts[a].balance = initBalance[a]

(***************************************************************************)
(* C39: over every ledger that committed recordTransfer and deposit calls  *)
(* leave behind, the daily report says isBalanced = true, also for a day   *)
(* with deposits and for a day without entries.                            *)
(***************************************************************************)
C39_ReportAlwaysBalanced ==
  dailyReport.outcome = "returned" => dailyReport.isBalanced

(***************************************************************************)
(* C33: getBalance and getTransactionHistory are read-only: no step of     *)
(* theirs changes the accounts, the ledger or the transactions; and two    *)
(* getBalance calls for a user whose accounts nothing has written to       *)
(* return the same balance and status.                                     *)
(***************************************************************************)
ReadStep(p) == call'[p].op \in ReadOps /\ call'[p] # call[p]

SameResultTwice ==
  \A p \in Slots, q \in Slots :
    (/\ call[p].op = "getBalance" /\ call[p].pc = "done"
     /\ call[q].op = "getBalance" /\ call[q].pc = "done"
     /\ call[p].toUser = call[q].toUser
     /\ \A a \in AccountsOf(call[p].toUser) :
          accounts[a].balance = initBalance[a])
    => (call[p].toBal = call[q].toBal /\ call[p].toStatus = call[q].toStatus)

C33_ReadsChangeNothing ==
  /\ [][\A p \in Slots : ReadStep(p) => UNCHANGED <<accounts, ledger, transactions>>]_vars
  /\ []SameResultTwice

(***************************************************************************)
(* C32: a failing notification sender changes neither the reported outcome *)
(* of a transfer nor the verdict of a monitoring evaluation.  After COMMIT *)
(* a transfer below the CTR threshold has only the notifications left, so  *)
(* it is reported completed; after the INSERT into blocked_transactions    *)
(* blockTransaction has only the notification left, so the evaluation      *)
(* returns the blocked verdict.                                            *)
(***************************************************************************)
C32_NotificationNeverChangesOutcome ==
  /\ (/\ mon.pc = "finished"
      /\ mon.transfer \in {"completed", "committed, then failed"}
      /\ mon.amount < wallet_ctr_threshold)
     => mon.transfer = "completed"
  /\ (/\ mon.pc \in {"returned", "finished"}
      /\ mon.result.returned = "verdict"
      /\ reports.blocked_transactions > 0)
     => mon.result.blocked

Paid == {p \in DOMAIN approve : approve[p].pc = "done"}

C36_RequestPaidAtMostOnce == Cardinality(Paid) <= 1

(***************************************************************************)
(* C37: once a cancel or decline of a pending scheduled transfer or money  *)
(* request has succeeded, the item stays cancelled or declined and moves   *)
(* no money, whatever execution or approval was under way.                 *)
(***************************************************************************)
C37_CancellationIsFinal ==
  /\ (money_requests.cancelled_at \/ money_requests.declined_at) =>
       /\ money_requests.status \in {"cancelled", "declined"}
       /\ Paid = {}
  /\ \A s \in Schedulers :
       scheduled_transfers[s].cancelled_at =>
         /\ scheduled_transfers[s].status = "cancelled"
         /\ \A t \in Triggers :
              ~(exec[t].scheduler = s /\ exec[t].pc = "committed")

(***************************************************************************)
(* C40: validate2FAToken answers valid for a given token at most once, in  *)
(* any interleaving of concurrent validations of that token.               *)
(***************************************************************************)
ValidFor(token) ==
  {v \in DOMAIN validate : /\ validate[v].pc = "returned"
                           /\ validate[v].valid
                           /\ validate[v].token = token}

C40_TokenValidAtMostOnce ==
  \A token \in Tokens : Cardinality(ValidFor(token)) <= 1

(***************************************************************************)
(* C38: no connection is back in the pool with a transaction still open:   *)
(* every BEGIN of a transfer handler is ended by COMMIT or ROLLBACK on     *)
(* every exit path before client.release().                                *)
(***************************************************************************)
C38_NoOpenTransactionInPool ==
  \A c \in ClientIds : c \notin clients.leased => c \notin clients.inTransaction

=============================================================================
